---- MODULE Spec2Model ----
(***************************************************************************)
(* zogo: runtime schema validation.  A validator node is a record with a   *)
(* field "kind"; Parse is the recursive function every node implements.    *)
(* The module models the composite engine (Object, Array, Tuple, Record,   *)
(* Union, Intersection, Lazy), the leaves it is exercised with, the        *)
(* builder methods that set the presence modifiers, and a driver that      *)
(* builds a schema and then calls Parse on it.                             *)
(***************************************************************************)
EXTENDS Integers, Sequences, FiniteSets, TLC

VARIABLES
    case,     \* which schema of the catalogue is being built / validated
    root,     \* the root validator node (the Go variable holding the schema)
    store,    \* the heap: modifier flags of the Lazy nodes, by node id
    phase,    \* "build" while builder methods may run, "parse" afterwards
    last,     \* the last Parse call: its arguments and its ParseResult
    nparse    \* number of Parse calls made on the schema so far

vars == <<case, root, store, phase, last, nparse>>

(***************************************************************************)
(* Bounds of the model.                                                    *)
(***************************************************************************)
\* Go's goroutine stack bounds the recursion depth; frames available to Parse.
MaxStack == 10
\* Parse calls made on one schema in one behaviour.
MaxParses == 2

(***************************************************************************)
(* Dynamic values (Go's any).  A string is its sequence of characters.     *)
(***************************************************************************)
Nil == [t |-> "nil"]
VStr(cs) == [t |-> "string", s |-> cs]
VInt(n) == [t |-> "int", n |-> n]
VFloat(n) == [t |-> "float64", n |-> n]
VBool(b) == [t |-> "bool", b |-> b]
VTime(d) == [t |-> "time", d |-> d]
VArr(a) == [t |-> "slice", a |-> a]
VMap(m) == [t |-> "map", m |-> m]

EmptyMap == <<>>

MapPut(m, k, x) == [y \in (DOMAIN m) \cup {k} |-> IF y = k THEN x ELSE m[y]]

Max2(a, b) == IF a >= b THEN a ELSE b

\* A nil pointer is <<>>, a pointer to x is <<x>>.
NilPtr == <<>>
Ptr(x) == <<x>>

(***************************************************************************)
(* Strings.                                                                *)
(***************************************************************************)
LowerLetters ==
    <<"a","b","c","d","e","f","g","h","i","j","k","l","m",
      "n","o","p","q","r","s","t","u","v","w","x","y","z">>

UpperLetters ==
    <<"A","B","C","D","E","F","G","H","I","J","K","L","M",
      "N","O","P","Q","R","S","T","U","V","W","X","Y","Z">>

Digits == {"0","1","2","3","4","5","6","7","8","9"}

Range(f) == {f[i] : i \in DOMAIN f}

Letters == Range(LowerLetters) \cup Range(UpperLetters)

WhiteSpace == {" ", "\t", "\n"}

RECURSIVE Str(_)
\* The Go string with these characters.
Str(cs) == IF cs = <<>> THEN "" ELSE cs[1] \o Str(Tail(cs))

ToUpperChar(c) ==
    IF c \in Range(LowerLetters)
    THEN UpperLetters[CHOOSE i \in DOMAIN LowerLetters : LowerLetters[i] = c]
    ELSE c

ToLowerChar(c) ==
    IF c \in Range(UpperLetters)
    THEN LowerLetters[CHOOSE i \in DOMAIN UpperLetters : UpperLetters[i] = c]
    ELSE c

\* strings.ToUpper / strings.ToLower
ToUpper(cs) == [i \in DOMAIN cs |-> ToUpperChar(cs[i])]
ToLower(cs) == [i \in DOMAIN cs |-> ToLowerChar(cs[i])]

RECURSIVE TrimLeft(_)
TrimLeft(cs) ==
    IF cs # <<>> /\ cs[1] \in WhiteSpace THEN TrimLeft(Tail(cs)) ELSE cs

RECURSIVE TrimRight(_)
TrimRight(cs) ==
    IF cs # <<>> /\ cs[Len(cs)] \in WhiteSpace
    THEN TrimRight(SubSeq(cs, 1, Len(cs) - 1))
    ELSE cs

\* strings.TrimSpace
TrimSpace(cs) == TrimRight(TrimLeft(cs))

AllIn(cs, from, to, S) == \A i \in from..to : cs[i] \in S

EmailLocalChars == Letters \cup Digits \cup {".", "_", "%", "+", "-"}
EmailDomainChars == Letters \cup Digits \cup {".", "-"}

\* ^[a-zA-Z0-9._%+-]+@[a-zA-Z0-9.-]+\.[a-zA-Z]{2,}$
isValidEmail(cs) ==
    \E at \in 2..Len(cs) : \E dot \in (at + 2)..(Len(cs) - 2) :
        /\ cs[at] = "@"
        /\ cs[dot] = "."
        /\ AllIn(cs, 1, at - 1, EmailLocalChars)
        /\ AllIn(cs, at + 1, dot - 1, EmailDomainChars)
        /\ AllIn(cs, dot + 1, Len(cs), Letters)

\* typeof: the type name used in messages
typeof(value) ==
    CASE value.t = "nil" -> "null"
      [] value.t = "string" -> "string"
      [] value.t \in {"int", "float64"} -> "number"
      [] value.t = "bool" -> "boolean"
      [] OTHER -> "unknown"

(***************************************************************************)
(* ParseResult and ValidationError.  Ok, Value and Errors are the Go       *)
(* fields.  The other fields are history the model keeps about the call:   *)
(* calls (the child validators this call invoked, in order, with the value *)
(* each was given), store (the heap after the call), depth (stack frames   *)
(* used), factoryCalls (factory invocations made during the call) and      *)
(* overflow (the call ran out of stack).                                   *)
(***************************************************************************)
ValidationError(path, message, value, code) ==
    [Path |-> path, Message |-> message, Value |-> value, Code |-> code]

Success(value, st) ==
    [Ok |-> TRUE, Value |-> value, Errors |-> <<>>,
     calls |-> <<>>, store |-> st, depth |-> 1, factoryCalls |-> 0,
     overflow |-> FALSE]

Failure(errors, st) ==
    [Ok |-> FALSE, Value |-> Nil, Errors |-> errors,
     calls |-> <<>>, store |-> st, depth |-> 1, factoryCalls |-> 0,
     overflow |-> FALSE]

FailureMessage(message, st) ==
    Failure(<<ValidationError("", message, Nil, "")>>, st)

\* The stack is exhausted: the Go runtime aborts the program.
StackOverflow(st) ==
    [Ok |-> FALSE, Value |-> Nil, Errors |-> <<>>,
     calls |-> <<>>, store |-> st, depth |-> 1, factoryCalls |-> 0,
     overflow |-> TRUE]

Call(who, arg) == [who |-> who, arg |-> arg]

prependPath_dotAlways(path) == "." \o path

\* prependPath: "." + path unless path is empty
prependPath(path) == IF path = "" THEN "" ELSE "." \o path

(***************************************************************************)
(* Validator nodes and their builder methods.  The builder methods of a    *)
(* node mutate it and return it; for a node held by value the model        *)
(* returns the changed node.                                               *)
(***************************************************************************)
NoFlags == [isRequired |-> FALSE, isOptional |-> FALSE, isNullable |-> FALSE]

String ==
    [kind |-> "string", minLen |-> NilPtr, maxLen |-> NilPtr,
     exactLen |-> NilPtr, isEmail |-> FALSE, shouldTrim |-> FALSE,
     shouldLowercase |-> FALSE, shouldUppercase |-> FALSE,
     isRequired |-> FALSE, isOptional |-> FALSE, isNullable |-> FALSE,
     defaultVal |-> NilPtr]

Number ==
    [kind |-> "number", minVal |-> NilPtr, maxVal |-> NilPtr,
     isRequired |-> FALSE, isOptional |-> FALSE, isNullable |-> FALSE,
     defaultVal |-> NilPtr]

Boolean ==
    [kind |-> "boolean",
     isRequired |-> FALSE, isOptional |-> FALSE, isNullable |-> FALSE,
     defaultVal |-> NilPtr]

Enum(allowedValues) ==
    [kind |-> "enum", allowedValues |-> allowedValues,
     isRequired |-> FALSE, isOptional |-> FALSE, isNullable |-> FALSE,
     defaultVal |-> NilPtr]

Date ==
    [kind |-> "date", minDate |-> NilPtr, maxDate |-> NilPtr,
     isRequired |-> FALSE, isOptional |-> FALSE, isNullable |-> FALSE,
     defaultVal |-> NilPtr]

AnyValidator ==
    [kind |-> "any",
     isRequired |-> FALSE, isOptional |-> FALSE, isNullable |-> FALSE]

Object(schema) ==
    [kind |-> "object", schema |-> schema, unknownFields |-> "strip",
     isRequired |-> FALSE, isOptional |-> FALSE, isNullable |-> FALSE]

Array(elementValidator) ==
    [kind |-> "array", elementValidator |-> elementValidator,
     minLen |-> NilPtr, maxLen |-> NilPtr, isNonEmpty |-> FALSE,
     isRequired |-> FALSE, isOptional |-> FALSE, isNullable |-> FALSE]

\* rest is a nil interface (<<>>) until Rest() sets it
Tuple(validators) ==
    [kind |-> "tuple", validators |-> validators, rest |-> NilPtr,
     isRequired |-> FALSE, isOptional |-> FALSE, isNullable |-> FALSE]

Record(keyValidator, valueValidator) ==
    [kind |-> "record", keyValidator |-> keyValidator,
     valueValidator |-> valueValidator,
     isRequired |-> FALSE, isOptional |-> FALSE, isNullable |-> FALSE]

Union(validators) ==
    [kind |-> "union", validators |-> validators,
     isRequired |-> FALSE, isOptional |-> FALSE, isNullable |-> FALSE]

\* A Validator of the caller's own: its Parse returns Failure(errors...)
\* for every value.
Custom(errors) == [kind |-> "custom", errors |-> errors]

Intersection(validators) ==
    [kind |-> "intersection", validators |-> validators,
     isRequired |-> FALSE, isOptional |-> FALSE, isNullable |-> FALSE]

\* A Lazy node is a pointer: id names the heap cell holding its flags and
\* selects its factory closure.
Lazy(id) == [kind |-> "lazy", id |-> id]

Required_keepsOptional(v) == [v EXCEPT !.isRequired = TRUE]

Required(v) == [v EXCEPT !.isRequired = TRUE, !.isOptional = FALSE]
Optional(v) == [v EXCEPT !.isOptional = TRUE, !.isRequired = FALSE]
Nullable(v) == [v EXCEPT !.isNullable = TRUE]
Default(v, val) == [v EXCEPT !.defaultVal = Ptr(val)]

Min(v, n) ==
    CASE v.kind = "number" -> [v EXCEPT !.minVal = Ptr(n)]
      [] v.kind = "date" -> [v EXCEPT !.minDate = Ptr(n)]
      [] OTHER -> [v EXCEPT !.minLen = Ptr(n)]

Max(v, n) ==
    CASE v.kind = "number" -> [v EXCEPT !.maxVal = Ptr(n)]
      [] v.kind = "date" -> [v EXCEPT !.maxDate = Ptr(n)]
      [] OTHER -> [v EXCEPT !.maxLen = Ptr(n)]

Email(v) == [v EXCEPT !.isEmail = TRUE]
Trim(v) == [v EXCEPT !.shouldTrim = TRUE]
ToUpperCase(v) == [v EXCEPT !.shouldUppercase = TRUE]
ToLowerCase(v) == [v EXCEPT !.shouldLowercase = TRUE]
NonEmpty(v) == [v EXCEPT !.isNonEmpty = TRUE]
Rest(v, validator) == [v EXCEPT !.rest = Ptr(validator)]
Strict(v) == [v EXCEPT !.unknownFields = "strict"]
Passthrough(v) == [v EXCEPT !.unknownFields = "passthrough"]
Strip(v) == [v EXCEPT !.unknownFields = "strip"]

(***************************************************************************)
(* Leaf validators.                                                        *)
(***************************************************************************)
\* The nil branch shared by String, Number, Boolean, Enum and Date:
\* default, then optional, then nullable, then failure.
NilWithDefault_optionalFirst(v, expected, st) ==
    IF v.isOptional THEN Success(Nil, st)
    ELSE IF v.defaultVal # NilPtr THEN Success(v.defaultVal[1], st)
    ELSE IF v.isNullable THEN Success(Nil, st)
    ELSE FailureMessage("Expected " \o expected \o ", received null", st)

NilWithDefault(v, expected, st) ==
    IF v.defaultVal # NilPtr THEN Success(v.defaultVal[1], st)
    ELSE IF v.isOptional THEN Success(Nil, st)
    ELSE IF v.isNullable THEN Success(Nil, st)
    ELSE FailureMessage("Expected " \o expected \o ", received null", st)

StringTransform(v, cs) ==
    LET t1 == IF v.shouldTrim THEN TrimSpace(cs) ELSE cs
        t2 == IF v.shouldLowercase THEN ToLower(t1) ELSE t1
    IN  IF v.shouldUppercase THEN ToUpper(t2) ELSE t2

StringValidator_Parse(v, value, st) ==
    IF value = Nil THEN NilWithDefault(v, "string", st)
    ELSE IF value.t # "string"
    THEN FailureMessage("Expected string, received " \o typeof(value), st)
    ELSE LET str == StringTransform(v, value.s) IN
      IF v.exactLen # NilPtr /\ Len(str) # v.exactLen[1]
      THEN FailureMessage("String must be exactly "
                          \o ToString(v.exactLen[1]) \o " characters", st)
      ELSE IF v.minLen # NilPtr /\ Len(str) < v.minLen[1]
      THEN FailureMessage("String must be at least "
                          \o ToString(v.minLen[1]) \o " characters", st)
      ELSE IF v.maxLen # NilPtr /\ Len(str) > v.maxLen[1]
      THEN FailureMessage("String must be at most "
                          \o ToString(v.maxLen[1]) \o " characters", st)
      ELSE IF v.isEmail /\ ~isValidEmail(str)
      THEN FailureMessage("Invalid email format", st)
      ELSE Success(VStr(str), st)

\* Every numeric Go type converts to float64.
NumberValidator_Parse(v, value, st) ==
    IF value = Nil THEN NilWithDefault(v, "number", st)
    ELSE IF value.t \notin {"int", "float64"}
    THEN FailureMessage("Expected number, received " \o typeof(value), st)
    ELSE LET num == value.n IN
      IF v.minVal # NilPtr /\ num < v.minVal[1]
      THEN FailureMessage("Number must be at least "
                          \o ToString(v.minVal[1]), st)
      ELSE IF v.maxVal # NilPtr /\ num > v.maxVal[1]
      THEN FailureMessage("Number must be at most "
                          \o ToString(v.maxVal[1]), st)
      ELSE Success(VFloat(num), st)

BooleanValidator_Parse(v, value, st) ==
    IF value = Nil THEN NilWithDefault(v, "boolean", st)
    ELSE IF value.t # "bool"
    THEN FailureMessage("Expected boolean, received " \o typeof(value), st)
    ELSE Success(value, st)

isNumeric(value) == value.t \in {"int", "float64"}

\* reflect.DeepEqual, or numeric values equal as float64
deepEqual(a, b) == a = b \/ (isNumeric(a) /\ isNumeric(b) /\ a.n = b.n)

EnumValidator_Parse(v, value, st) ==
    IF value = Nil THEN NilWithDefault(v, "enum value", st)
    ELSE IF \E i \in DOMAIN v.allowedValues : deepEqual(value, v.allowedValues[i])
    THEN Success(value, st)
    ELSE FailureMessage("Invalid enum value", st)

\* The value of a decimal digit, -1 for any other character.
Digit(c) ==
    CASE c = "0" -> 0 [] c = "1" -> 1 [] c = "2" -> 2 [] c = "3" -> 3
      [] c = "4" -> 4 [] c = "5" -> 5 [] c = "6" -> 6 [] c = "7" -> 7
      [] c = "8" -> 8 [] c = "9" -> 9 [] OTHER -> -1

\* The number written by the characters cs, -1 unless all are digits.
RECURSIVE atoi(_)
atoi(cs) ==
    IF cs = <<>> THEN 0
    ELSE LET head == atoi(SubSeq(cs, 1, Len(cs) - 1))
             d == Digit(cs[Len(cs)])
         IN  IF head < 0 \/ d < 0 THEN -1 ELSE head * 10 + d

daysIn(month, year) ==
    IF month = 2
    THEN IF year % 4 = 0 /\ (year % 100 # 0 \/ year % 400 = 0) THEN 29 ELSE 28
    ELSE IF month \in {4, 6, 9, 11} THEN 30 ELSE 31

\* time.Parse of a layout of a year, a month and a day at the given
\* positions with the separator sep: <<t>>, or <<>> for the error.  The
\* instant t is counted in days of 31-day months, which keeps the order.
parseLayout(s, sep, y, m, d) ==
    LET year == atoi(SubSeq(s, y, y + 3))
        month == atoi(SubSeq(s, m, m + 1))
        day == atoi(SubSeq(s, d, d + 1))
        digits == {y, y + 1, y + 2, y + 3, m, m + 1, d, d + 1}
    IN  IF Len(s) # 10 THEN <<>>
        ELSE IF \E i \in (1..10) \ digits : s[i] # sep THEN <<>>
        ELSE IF year < 0 \/ month < 1 \/ month > 12 \/ day < 1 THEN <<>>
        ELSE IF day > daysIn(month, year) THEN <<>>
        ELSE <<(year * 12 + (month - 1)) * 31 + day>>

\* parseDate tries its layouts in turn and returns the first that parses.
\* The date-only layouts are "2006-01-02", "01/02/2006" and "02-01-2006";
\* every other layout has a time of day and needs at least 19 characters,
\* which no string of the model has.
parseDate(s) ==
    LET iso == parseLayout(s, "-", 1, 6, 9)
        us == parseLayout(s, "/", 7, 1, 4)
        eu == parseLayout(s, "-", 7, 4, 1)
    IN  IF iso # <<>> THEN iso ELSE IF us # <<>> THEN us ELSE eu

\* A time.Time is taken as it is, a string is handed to parseDate (the
\* text of its error is left out of the message).
DateValidator_Parse(v, value, st) ==
    LET parsed == IF value.t = "string" THEN parseDate(value.s) ELSE <<>>
        dateVal == IF value.t = "string" THEN parsed[1] ELSE value.d
    IN  IF value = Nil THEN NilWithDefault(v, "date", st)
        ELSE IF value.t = "string" /\ parsed = <<>>
        THEN FailureMessage("Invalid date string", st)
        ELSE IF value.t \notin {"string", "time"}
        THEN FailureMessage("Expected date, received " \o typeof(value), st)
        ELSE IF v.minDate # NilPtr /\ dateVal < v.minDate[1]
        THEN FailureMessage("Date must be at or after "
                            \o ToString(v.minDate[1]), st)
        ELSE IF v.maxDate # NilPtr /\ dateVal > v.maxDate[1]
        THEN FailureMessage("Date must be at or before "
                            \o ToString(v.maxDate[1]), st)
        ELSE Success(VTime(dateVal), st)

AnyValidator_Parse(v, value, st) ==
    IF v.isRequired /\ value = Nil
    THEN FailureMessage("Expected value, received null", st)
    ELSE Success(value, st)

(***************************************************************************)
(* Combinators.  env.ord is the order in which this call's "range" over a  *)
(* Go map visits keys (Go leaves it unspecified); env.fuel is the stack    *)
(* left.  A loop is a recursive operator over the items still to visit,    *)
(* carrying the loop's local variables in acc.                             *)
(***************************************************************************)
RECURSIVE Parse(_, _, _, _)

Deeper(env) == [env EXCEPT !.fuel = @ - 1]

\* The keys of S in the order the map iteration visits them.
KeysInOrder(S, ord) == SelectSeq(ord, LAMBDA k : k \in S)

AccInit(result, st) ==
    [result |-> result, errors |-> <<>>, calls |-> <<>>, store |-> st,
     depth |-> 0, factoryCalls |-> 0, overflow |-> FALSE]

\* History of one child call, added to the loop's state.
AccChild(acc, who, arg, r) ==
    [acc EXCEPT !.calls = Append(@, Call(who, arg)),
                !.store = r.store,
                !.depth = Max2(@, r.depth),
                !.factoryCalls = @ + r.factoryCalls,
                !.overflow = @ \/ r.overflow]

\* The ParseResult res of a call whose loop ended in acc.
Finish(acc, res) ==
    [res EXCEPT !.calls = acc.calls, !.store = acc.store,
                !.depth = acc.depth + 1,
                !.factoryCalls = acc.factoryCalls,
                !.overflow = acc.overflow]

FailureOrSuccess_partialValue(acc, value) ==
    IF Len(acc.errors) > 0
    THEN Finish(acc, [Failure(acc.errors, acc.store) EXCEPT !.Value = value])
    ELSE Finish(acc, Success(value, acc.store))

\* if len(errors) > 0 { return Failure(errors...) }; return Success(result)
FailureOrSuccess(acc, value) ==
    IF Len(acc.errors) > 0
    THEN Finish(acc, Failure(acc.errors, acc.store))
    ELSE Finish(acc, Success(value, acc.store))

\* The child's errors under the parent's path segment: Path, Message and
\* Value are set, Code is left at its zero value.
withPath(prefix, errors) ==
    [i \in DOMAIN errors |->
        ValidationError(prefix \o prependPath(errors[i].Path),
                        errors[i].Message, errors[i].Value, "")]

NilNoDefault_optionalOnly(v, expected, st) ==
    IF v.isOptional THEN Success(Nil, st)
    ELSE FailureMessage("Expected " \o expected \o ", received null", st)

\* Optional, then nullable, then failure: the nil branch of Object, Array,
\* Tuple and Record.
NilNoDefault(v, expected, st) ==
    IF v.isOptional THEN Success(Nil, st)
    ELSE IF v.isNullable THEN Success(Nil, st)
    ELSE FailureMessage("Expected " \o expected \o ", received null", st)

(* ------------------------------ Object -------------------------------- *)
\* The returns of Object.Parse that precede the loops: <<result>>, or <<>>
\* when the input is a map and the loops run.
ObjectEarly(v, value, st) ==
    IF value = Nil THEN <<NilNoDefault(v, "object", st)>>
    ELSE IF value.t # "map"
    THEN <<FailureMessage("Expected object, received " \o typeof(value), st)>>
    ELSE <<>>

ObjectField_insertsNil(v, objMap, acc, fieldName, env) ==
    LET fieldValue ==
            IF fieldName \in DOMAIN objMap THEN objMap[fieldName] ELSE Nil
        fieldResult ==
            Parse(v.schema[fieldName], fieldValue, acc.store, Deeper(env))
        a == AccChild(acc, Str(fieldName), fieldValue, fieldResult)
    IN  IF ~fieldResult.Ok
        THEN [a EXCEPT !.errors =
                  @ \o withPath(Str(fieldName), fieldResult.Errors)]
        ELSE [a EXCEPT !.result = MapPut(@, fieldName, fieldResult.Value)]

\* One iteration of "for fieldName, fieldValidator := range v.schema".
ObjectField(v, objMap, acc, fieldName, env) ==
    LET fieldValue ==
            IF fieldName \in DOMAIN objMap THEN objMap[fieldName] ELSE Nil
        fieldResult ==
            Parse(v.schema[fieldName], fieldValue, acc.store, Deeper(env))
        a == AccChild(acc, Str(fieldName), fieldValue, fieldResult)
    IN  IF ~fieldResult.Ok
        THEN [a EXCEPT !.errors =
                  @ \o withPath(Str(fieldName), fieldResult.Errors)]
        ELSE IF fieldResult.Value # Nil
        THEN [a EXCEPT !.result = MapPut(@, fieldName, fieldResult.Value)]
        ELSE a

RECURSIVE ObjectFields(_, _, _, _, _)
\* The loop over the schema; nothing runs after the stack overflowed.
ObjectFields(v, objMap, acc, names, env) ==
    IF names = <<>> \/ acc.overflow THEN acc
    ELSE ObjectFields(v, objMap,
                      ObjectField(v, objMap, acc, Head(names), env),
                      Tail(names), env)

ObjectUnknown_lenient(v, objMap, acc, fieldName) ==
    IF fieldName \in DOMAIN v.schema THEN acc
    ELSE IF v.unknownFields = "passthrough"
    THEN [acc EXCEPT !.result = MapPut(@, fieldName, objMap[fieldName])]
    ELSE acc

\* One iteration of "for fieldName, fieldValue := range objMap".
ObjectUnknown(v, objMap, acc, fieldName) ==
    IF fieldName \in DOMAIN v.schema THEN acc
    ELSE CASE v.unknownFields = "strict" ->
                [acc EXCEPT !.errors = Append(@,
                    ValidationError(Str(fieldName), "Unknown field",
                                    objMap[fieldName], ""))]
           [] v.unknownFields = "passthrough" ->
                [acc EXCEPT !.result =
                    MapPut(@, fieldName, objMap[fieldName])]
           [] OTHER -> acc

RECURSIVE ObjectUnknowns(_, _, _, _)
ObjectUnknowns(v, objMap, acc, names) ==
    IF names = <<>> \/ acc.overflow THEN acc
    ELSE ObjectUnknowns(v, objMap,
                        ObjectUnknown(v, objMap, acc, Head(names)),
                        Tail(names))

ObjectValidator_Parse(v, value, st, env) ==
    LET early == ObjectEarly(v, value, st)
        a == ObjectUnknowns(v, value.m,
                 ObjectFields(v, value.m, AccInit(EmptyMap, st),
                              KeysInOrder(DOMAIN v.schema, env.ord), env),
                 KeysInOrder(DOMAIN value.m, env.ord))
    IN  IF early # <<>> THEN early[1] ELSE FailureOrSuccess(a, VMap(a.result))

(* ------------------------------- Array -------------------------------- *)
\* "[%d]" of an index
Index(i) == "[" \o ToString(i) \o "]"

ArrayEarly_minFirst(v, value, st) ==
    IF value = Nil THEN <<NilNoDefault(v, "array", st)>>
    ELSE IF value.t # "slice"
    THEN <<FailureMessage("Expected array, received " \o typeof(value), st)>>
    ELSE IF v.minLen # NilPtr /\ Len(value.a) < v.minLen[1]
    THEN <<FailureMessage("Array must contain at least "
               \o ToString(v.minLen[1]) \o " element(s)", st)>>
    ELSE IF v.isNonEmpty /\ Len(value.a) = 0
    THEN <<FailureMessage("Array must not be empty", st)>>
    ELSE IF v.maxLen # NilPtr /\ Len(value.a) > v.maxLen[1]
    THEN <<FailureMessage("Array must contain at most "
               \o ToString(v.maxLen[1]) \o " element(s)", st)>>
    ELSE <<>>

\* The returns of Array.Parse that precede the loop: nil, a value that is
\* no slice, and the length constraints.
ArrayEarly(v, value, st) ==
    IF value = Nil THEN <<NilNoDefault(v, "array", st)>>
    ELSE IF value.t # "slice"
    THEN <<FailureMessage("Expected array, received " \o typeof(value), st)>>
    ELSE IF v.isNonEmpty /\ Len(value.a) = 0
    THEN <<FailureMessage("Array must not be empty", st)>>
    ELSE IF v.minLen # NilPtr /\ Len(value.a) < v.minLen[1]
    THEN <<FailureMessage("Array must contain at least "
               \o ToString(v.minLen[1]) \o " element(s)", st)>>
    ELSE IF v.maxLen # NilPtr /\ Len(value.a) > v.maxLen[1]
    THEN <<FailureMessage("Array must contain at most "
               \o ToString(v.maxLen[1]) \o " element(s)", st)>>
    ELSE <<>>

ArrayElement_keepsInput(v, arr, acc, i, env) ==
    LET elem == arr[i + 1]
        elemResult == Parse(v.elementValidator, elem, acc.store, Deeper(env))
        a == AccChild(acc, Index(i), elem, elemResult)
    IN  IF ~elemResult.Ok
        THEN [a EXCEPT !.errors = @ \o withPath(Index(i), elemResult.Errors)]
        ELSE [a EXCEPT !.result = Append(@, elem)]

\* One iteration of "for i, elem := range arr"; i is the Go index.
ArrayElement(v, arr, acc, i, env) ==
    LET elem == arr[i + 1]
        elemResult == Parse(v.elementValidator, elem, acc.store, Deeper(env))
        a == AccChild(acc, Index(i), elem, elemResult)
    IN  IF ~elemResult.Ok
        THEN [a EXCEPT !.errors = @ \o withPath(Index(i), elemResult.Errors)]
        ELSE [a EXCEPT !.result = Append(@, elemResult.Value)]

RECURSIVE ArrayElements(_, _, _, _, _)
ArrayElements(v, arr, acc, i, env) ==
    IF i >= Len(arr) \/ acc.overflow THEN acc
    ELSE ArrayElements(v, arr, ArrayElement(v, arr, acc, i, env), i + 1, env)

ArrayValidator_Parse(v, value, st, env) ==
    LET early == ArrayEarly(v, value, st)
        a == ArrayElements(v, value.a, AccInit(<<>>, st), 0, env)
    IN  IF early # <<>> THEN early[1] ELSE FailureOrSuccess(a, VArr(a.result))

(* ------------------------------- Tuple -------------------------------- *)
TupleEarly_alwaysExact(v, value, st) ==
    IF value = Nil THEN <<NilNoDefault(v, "tuple", st)>>
    ELSE IF value.t # "slice"
    THEN <<FailureMessage("Expected tuple (array), received "
                          \o typeof(value), st)>>
    ELSE IF Len(value.a) # Len(v.validators)
    THEN <<FailureMessage("Expected tuple of length "
               \o ToString(Len(v.validators)) \o ", received length "
               \o ToString(Len(value.a)), st)>>
    ELSE <<>>

\* The returns of Tuple.Parse that precede the loops: nil, a value that is
\* no slice, and the length check.
TupleEarly(v, value, st) ==
    IF value = Nil THEN <<NilNoDefault(v, "tuple", st)>>
    ELSE IF value.t # "slice"
    THEN <<FailureMessage("Expected tuple (array), received "
                          \o typeof(value), st)>>
    ELSE IF v.rest = NilPtr /\ Len(value.a) # Len(v.validators)
    THEN <<FailureMessage("Expected tuple of length "
               \o ToString(Len(v.validators)) \o ", received length "
               \o ToString(Len(value.a)), st)>>
    ELSE IF v.rest # NilPtr /\ Len(value.a) < Len(v.validators)
    THEN <<FailureMessage("Expected tuple of at least length "
               \o ToString(Len(v.validators)) \o ", received length "
               \o ToString(Len(value.a)), st)>>
    ELSE <<>>

\* The validator of Go index i: positional, or rest beyond the positions.
TupleValidatorAt(v, i) ==
    IF i < Len(v.validators) THEN v.validators[i + 1] ELSE v.rest[1]

TupleElement_relativeRest(v, arr, acc, i, env) ==
    LET elemResult ==
            Parse(TupleValidatorAt(v, i), arr[i + 1], acc.store, Deeper(env))
        a == AccChild(acc, Index(i), arr[i + 1], elemResult)
        j == IF i < Len(v.validators) THEN i ELSE i - Len(v.validators)
    IN  IF ~elemResult.Ok
        THEN [a EXCEPT !.errors = @ \o withPath(Index(j), elemResult.Errors)]
        ELSE [a EXCEPT !.result = Append(@, elemResult.Value)]

\* One iteration of either loop of Tuple.Parse.
TupleElement(v, arr, acc, i, env) ==
    LET elemResult ==
            Parse(TupleValidatorAt(v, i), arr[i + 1], acc.store, Deeper(env))
        a == AccChild(acc, Index(i), arr[i + 1], elemResult)
    IN  IF ~elemResult.Ok
        THEN [a EXCEPT !.errors = @ \o withPath(Index(i), elemResult.Errors)]
        ELSE [a EXCEPT !.result = Append(@, elemResult.Value)]

RECURSIVE TupleElements(_, _, _, _, _)
\* "for i, validator := range v.validators" and then, with a rest
\* validator, "for i := expectedLen; i < actualLen; i++".
TupleElements(v, arr, acc, i, env) ==
    IF i >= Len(arr) \/ acc.overflow THEN acc
    ELSE TupleElements(v, arr, TupleElement(v, arr, acc, i, env), i + 1, env)

TupleValidator_Parse(v, value, st, env) ==
    LET early == TupleEarly(v, value, st)
        a == TupleElements(v, value.a, AccInit(<<>>, st), 0, env)
    IN  IF early # <<>> THEN early[1] ELSE FailureOrSuccess(a, VArr(a.result))

(* ------------------------------- Record ------------------------------- *)
RecordEarly(v, value, st) ==
    IF value = Nil THEN <<NilNoDefault(v, "record (object)", st)>>
    ELSE IF value.t # "map"
    THEN <<FailureMessage("Expected record (object), received "
                          \o typeof(value), st)>>
    ELSE <<>>

\* "key(%s)" of a key
KeyPath(key) == "key(" \o Str(key) \o ")"

\* The rest of an iteration whose key was accepted.
RecordValue(v, objMap, a1, key, keyResult, env) ==
    LET valResult ==
            Parse(v.valueValidator, objMap[key], a1.store, Deeper(env))
        a2 == AccChild(a1, Str(key), objMap[key], valResult)
    IN  IF ~valResult.Ok
        THEN [a2 EXCEPT !.errors = @ \o withPath(Str(key), valResult.Errors)]
        ELSE IF keyResult.Value.t # "string"
        THEN [a2 EXCEPT !.errors = Append(@,
                 ValidationError(KeyPath(key), "Record key must be a string",
                                 keyResult.Value, ""))]
        ELSE [a2 EXCEPT !.result =
                 MapPut(@, keyResult.Value.s, valResult.Value)]

RecordEntry_valueAnyway(v, objMap, acc, key, env) ==
    LET keyResult == Parse(v.keyValidator, VStr(key), acc.store, Deeper(env))
        a1 == AccChild(acc, KeyPath(key), VStr(key), keyResult)
    IN  RecordValue(v, objMap,
                    IF ~keyResult.Ok
                    THEN [a1 EXCEPT !.errors =
                             @ \o withPath(KeyPath(key), keyResult.Errors)]
                    ELSE a1,
                    key, keyResult, env)

\* One iteration of "for key, val := range objMap".
RecordEntry(v, objMap, acc, key, env) ==
    LET keyResult == Parse(v.keyValidator, VStr(key), acc.store, Deeper(env))
        a1 == AccChild(acc, KeyPath(key), VStr(key), keyResult)
    IN  IF ~keyResult.Ok
        THEN [a1 EXCEPT !.errors =
                 @ \o withPath(KeyPath(key), keyResult.Errors)]
        ELSE RecordValue(v, objMap, a1, key, keyResult, env)

RECURSIVE RecordEntries_failFast(_, _, _, _, _)
RecordEntries_failFast(v, objMap, acc, keys, env) ==
    IF keys = <<>> \/ acc.overflow \/ acc.errors # <<>> THEN acc
    ELSE RecordEntries_failFast(v, objMap,
                                RecordEntry(v, objMap, acc, Head(keys), env),
                                Tail(keys), env)

RECURSIVE RecordEntries(_, _, _, _, _)
RecordEntries(v, objMap, acc, keys, env) ==
    IF keys = <<>> \/ acc.overflow THEN acc
    ELSE RecordEntries(v, objMap,
                       RecordEntry(v, objMap, acc, Head(keys), env),
                       Tail(keys), env)

RecordValidator_Parse(v, value, st, env) ==
    LET early == RecordEarly(v, value, st)
        a == RecordEntries(v, value.m, AccInit(EmptyMap, st),
                           KeysInOrder(DOMAIN value.m, env.ord), env)
    IN  IF early # <<>> THEN early[1] ELSE FailureOrSuccess(a, VMap(a.result))

(* ------------------------------- Union -------------------------------- *)
RECURSIVE Join(_, _)
\* strings.Join
Join(strs, sep) ==
    IF strs = <<>> THEN ""
    ELSE IF Len(strs) = 1 THEN strs[1]
    ELSE strs[1] \o sep \o Join(Tail(strs), sep)

UnionEarly_requiredFirst(v, value, st) ==
    IF value # Nil THEN <<>>
    ELSE IF v.isRequired
    THEN <<FailureMessage("Expected value, received null", st)>>
    ELSE IF v.isOptional \/ v.isNullable THEN <<Success(Nil, st)>>
    ELSE <<>>

\* The nil branch of Union.Parse: <<result>>, or <<>> when the members are
\* tried.
UnionEarly(v, value, st) ==
    IF value # Nil THEN <<>>
    ELSE IF v.isOptional THEN <<Success(Nil, st)>>
    ELSE IF v.isNullable THEN <<Success(Nil, st)>>
    ELSE IF v.isRequired
    THEN <<FailureMessage("Expected value, received null", st)>>
    ELSE <<>>

UnionOption_zeroBased(i, result) ==
    "Option " \o ToString(i) \o ": "
    \o Join([j \in DOMAIN result.Errors |-> result.Errors[j].Message], ", ")

\* The "Option i+1: ..." entry of a failed member.
UnionOption(i, result) ==
    IF Len(result.Errors) > 0
    THEN "Option " \o ToString(i + 1) \o ": "
         \o Join([j \in DOMAIN result.Errors |-> result.Errors[j].Message],
                 ", ")
    ELSE "Option " \o ToString(i + 1) \o ": validation failed"

\* The return after the loop: no member accepted.
UnionNoMatch(acc) ==
    Finish(acc, FailureMessage(
        "Value did not match any union type. Errors: "
        \o Join(acc.result, "; "), acc.store))

\* One iteration of "for i, validator := range v.validators": acc.result is
\* allErrors; acc.done holds the result once a member accepted.
UnionMember(v, value, acc, i, env) ==
    LET result == Parse(v.validators[i + 1], value, acc.store, Deeper(env))
        a == AccChild(acc, ToString(i + 1), value, result)
    IN  IF result.Ok
        THEN [a EXCEPT !.done = <<Finish(a, Success(result.Value, a.store))>>]
        ELSE [a EXCEPT !.result = Append(@, UnionOption(i, result))]

RECURSIVE UnionMembers_tryAll(_, _, _, _, _)
UnionMembers_tryAll(v, value, acc, i, env) ==
    IF i >= Len(v.validators) \/ acc.overflow THEN acc
    ELSE UnionMembers_tryAll(v, value, UnionMember(v, value, acc, i, env),
                             i + 1, env)

RECURSIVE UnionMembers(_, _, _, _, _)
UnionMembers(v, value, acc, i, env) ==
    IF i >= Len(v.validators) \/ acc.done # <<>> \/ acc.overflow THEN acc
    ELSE UnionMembers(v, value, UnionMember(v, value, acc, i, env),
                      i + 1, env)

UnionValidator_Parse(v, value, st, env) ==
    LET early == UnionEarly(v, value, st)
        a == UnionMembers(v, value,
                 [AccInit(<<>>, st) EXCEPT !.errors = <<>>] @@ [done |-> <<>>],
                 0, env)
    IN  IF early # <<>> THEN early[1]
        ELSE IF a.done # <<>> THEN a.done[1]
        ELSE UnionNoMatch(a)

(* ---------------------------- Intersection ---------------------------- *)
IntersectionEarly_ignoresRequired(v, value, st) ==
    IF value = Nil /\ (v.isOptional \/ v.isNullable)
    THEN <<Success(Nil, st)>>
    ELSE <<>>

\* The nil branch of Intersection.Parse.
IntersectionEarly(v, value, st) ==
    IF value # Nil THEN <<>>
    ELSE IF v.isOptional \/ v.isNullable THEN <<Success(Nil, st)>>
    ELSE IF v.isRequired
    THEN <<FailureMessage("Expected value, received null", st)>>
    ELSE <<>>

\* The member's errors with the member's ordinal in the message; the path
\* is the member's, Code is left at its zero value.
IntersectionErrors(i, errors) ==
    [j \in DOMAIN errors |->
        ValidationError(errors[j].Path,
            "Intersection validator " \o ToString(i + 1) \o ": "
            \o errors[j].Message,
            errors[j].Value, "")]

IntersectionMember_keepsInput(v, acc, i, env) ==
    LET result == Parse(v.validators[i + 1], acc.result, acc.store,
                        Deeper(env))
        a == AccChild(acc, ToString(i + 1), acc.result, result)
    IN  IF ~result.Ok
        THEN [a EXCEPT !.errors = @ \o IntersectionErrors(i, result.Errors)]
        ELSE a

\* One iteration of "for i, validator := range v.validators";
\* acc.result is currentValue.
IntersectionMember(v, acc, i, env) ==
    LET result == Parse(v.validators[i + 1], acc.result, acc.store,
                        Deeper(env))
        a == AccChild(acc, ToString(i + 1), acc.result, result)
    IN  IF ~result.Ok
        THEN [a EXCEPT !.errors = @ \o IntersectionErrors(i, result.Errors)]
        ELSE [a EXCEPT !.result = result.Value]

RECURSIVE IntersectionMembers(_, _, _, _)
IntersectionMembers(v, acc, i, env) ==
    IF i >= Len(v.validators) \/ acc.overflow THEN acc
    ELSE IntersectionMembers(v, IntersectionMember(v, acc, i, env),
                             i + 1, env)

IntersectionValidator_Parse(v, value, st, env) ==
    LET early == IntersectionEarly(v, value, st)
        a == IntersectionMembers(v, AccInit(value, st), 0, env)
    IN  IF early # <<>> THEN early[1] ELSE FailureOrSuccess(a, a.result)

(* -------------------------------- Lazy --------------------------------- *)
\* Field names of the schemas below, as Go strings.
K_date == <<"2", "0", "2", "4", "-", "0", "1", "-", "1", "5">>
K_a == <<"a">>
K_sp_a == <<" ", "a">>
K_age == <<"a", "g", "e">>
K_b == <<"b">>
K_c == <<"c">>
K_child == <<"c", "h", "i", "l", "d">>
K_children == <<"c", "h", "i", "l", "d", "r", "e", "n">>
K_d == <<"d">>
K_email == <<"e", "m", "a", "i", "l">>
K_name == <<"n", "a", "m", "e">>
K_profile == <<"p", "r", "o", "f", "i", "l", "e">>
K_user == <<"u", "s", "e", "r">>
K_users == <<"u", "s", "e", "r", "s">>
K_value == <<"v", "a", "l", "u", "e">>
K_x == <<"x">>

\* Schema{k1: v1, k2: v2}
Schema1(k1, v1) == [k \in {k1} |-> v1]
Schema2(k1, v1, k2, v2) == [k \in {k1, k2} |-> IF k = k1 THEN v1 ELSE v2]

\* The factory closures of the Lazy nodes: the validator a call returns and
\* the heap after the call.
\*   tree:  Object{value: Number().Min(0), children: Array(treeSchema).Optional()}
\*   chain: Object{value: Number(), child: treeSchema.(*LazyValidator).Optional()},
\*          which calls Optional() on the Lazy node itself
\*   bag:   Union(Number(), Record(String(), bagSchema), Tuple().Rest(bagSchema))
\*   str:   String()
\*   opt:   String().Optional()
factory_self(id, st) == [validator |-> Lazy(id), store |-> st]

factory(id, st) ==
    CASE id = "tree" ->
            [validator |->
                Object(Schema2(K_value, Min(Number, 0),
                               K_children, Optional(Array(Lazy("tree"))))),
             store |-> st]
      [] id = "chain" ->
            [validator |->
                Object(Schema2(K_value, Number, K_child, Lazy("chain"))),
             store |-> [st EXCEPT !["chain"] = Optional(@)]]
      [] id = "bag" ->
            [validator |->
                Union(<<Number, Record(String, Lazy("bag")),
                        Rest(Tuple(<<>>), Lazy("bag"))>>),
             store |-> st]
      [] id = "opt" ->
            [validator |-> Optional(String), store |-> st]
      [] OTHER ->
            [validator |-> String, store |-> st]

\* The nil branch of Lazy.Parse, decided by the node's flags in the heap.
LazyEarly(v, value, st) ==
    IF value # Nil THEN <<>>
    ELSE IF st[v.id].isOptional THEN <<Success(Nil, st)>>
    ELSE IF st[v.id].isNullable THEN <<Success(Nil, st)>>
    ELSE IF st[v.id].isRequired
    THEN <<FailureMessage("Expected value, received null", st)>>
    ELSE <<>>

LazyDelegate_prefixed(v, value, made, env) ==
    LET r == Parse(made.validator, value, made.store, Deeper(env))
    IN  [r EXCEPT !.calls = <<Call("actualValidator", value)>>,
                  !.depth = @ + 1,
                  !.factoryCalls = @ + 1,
                  !.Errors = withPath("lazy", r.Errors)]

\* actualValidator := v.factory(); return actualValidator.Parse(value)
LazyDelegate(v, value, made, env) ==
    [Parse(made.validator, value, made.store, Deeper(env))
        EXCEPT !.calls = <<Call("actualValidator", value)>>,
               !.depth = @ + 1,
               !.factoryCalls = @ + 1]

LazyValidator_Parse(v, value, st, env) ==
    LET early == LazyEarly(v, value, st)
    IN  IF early # <<>> THEN early[1]
        ELSE LazyDelegate(v, value, factory(v.id, st), env)

(* ------------------------- Validator.Parse ---------------------------- *)
\* Dynamic dispatch of Parse on the node's type; a call needs a stack frame.
Parse(v, value, st, env) ==
    IF env.fuel <= 0 THEN StackOverflow(st)
    ELSE CASE v.kind = "string" -> StringValidator_Parse(v, value, st)
           [] v.kind = "number" -> NumberValidator_Parse(v, value, st)
           [] v.kind = "boolean" -> BooleanValidator_Parse(v, value, st)
           [] v.kind = "enum" -> EnumValidator_Parse(v, value, st)
           [] v.kind = "date" -> DateValidator_Parse(v, value, st)
           [] v.kind = "any" -> AnyValidator_Parse(v, value, st)
           [] v.kind = "object" -> ObjectValidator_Parse(v, value, st, env)
           [] v.kind = "array" -> ArrayValidator_Parse(v, value, st, env)
           [] v.kind = "tuple" -> TupleValidator_Parse(v, value, st, env)
           [] v.kind = "record" -> RecordValidator_Parse(v, value, st, env)
           [] v.kind = "union" -> UnionValidator_Parse(v, value, st, env)
           [] v.kind = "intersection" ->
                  IntersectionValidator_Parse(v, value, st, env)
           [] v.kind = "lazy" -> LazyValidator_Parse(v, value, st, env)
           [] v.kind = "custom" -> Failure(v.errors, st)

(***************************************************************************)
(* The schemas under validation and the inputs given to each.              *)
(***************************************************************************)
\* Every map key of the model, in byte order.
AllKeys ==
    <<K_sp_a, K_date, K_a, K_age, K_b, K_c, K_child, K_children, K_d, K_email,
      K_name, K_profile, K_user, K_users, K_value, K_x>>

Reverse(q) == [i \in DOMAIN q |-> q[Len(q) + 1 - i]]

\* Orders in which one Parse call may range over its maps.
Orders == {AllKeys, Reverse(AllKeys)}

LazyIds == {"tree", "chain", "bag", "str", "opt"}

S_feb30 == <<"3", "0", "/", "0", "2", "/", "2", "0", "2", "4">>
S_hi == <<"h", "i">>
S_sp_hi_sp == <<" ", "h", "i", " ">>
S_sp_hello_sp == <<" ", "h", "e", "l", "l", "o", " ">>
S_hello == <<"h", "e", "l", "l", "o">>
S_al == <<"a", "l">>
S_bad == <<"b", "a", "d">>
S_mail == <<"a", "@", "b", ".", "c", "o">>
S_sp_x_sp == <<" ", "x", " ">>

EmailObject == Object(Schema1(K_email, Email(String)))

Cases ==
    {"string", "number", "boolean", "enum", "date", "any",
     "union", "unionNum", "unionEmpty", "unionUpper",
     "intersection", "intersectionNum", "intersectionOpt",
     "intersectionEmpty", "intersectionMin",
     "objUser", "objDeep", "objFlat", "objUsers",
     "arrObj", "arrNum", "arrOpt", "arrTrim", "arrLen", "arrBounds", "arrCross",
     "tuple", "tupleRest", "tupleEmpty",
     "record", "recordKey", "recordDate", "recordTrim",
     "objCustom", "arrCustom", "tupleCustom", "recordCustom",
     "intersectionCustom", "objCoded", "intersectionCoded",
     "tree", "chain", "bag", "lazyStr", "lazyOpt"}

\* A Validator of the caller's own that returns
\* Failure(ValidationError{Message, Value, Code}).
Coded ==
    Custom(<<ValidationError("", "Too small", VInt(1), "too_small")>>)

\* The validator each case constructs, before any modifier is applied to it.
Construct(c) ==
    CASE c = "string" -> Min(Trim(String), 3)
      [] c = "number" -> Min(Number, 0)
      [] c = "boolean" -> Boolean
      [] c = "enum" -> Enum(<<VStr(K_a), VInt(1)>>)
      [] c = "date" -> Min(Date, 5)
      [] c = "any" -> AnyValidator
      [] c = "union" ->
            Union(<<Min(String, 3), Trim(String), ToUpperCase(String)>>)
      [] c = "unionNum" -> Union(<<Min(Number, 0), Optional(String)>>)
      [] c = "unionEmpty" -> Union(<<>>)
      [] c = "unionUpper" ->
            Union(<<ToUpperCase(Max(String, 2)), Trim(String)>>)
      [] c = "intersection" ->
            Intersection(<<Trim(String), Min(String, 3),
                           ToUpperCase(String)>>)
      [] c = "intersectionNum" ->
            Intersection(<<Min(Number, 0), Max(Number, 10)>>)
      [] c = "intersectionOpt" ->
            Intersection(<<Optional(String), Optional(Trim(String))>>)
      [] c = "intersectionEmpty" -> Intersection(<<>>)
      [] c = "intersectionMin" ->
            Intersection(<<Min(String, 4), Trim(String)>>)
      [] c = "objUser" -> Object(Schema1(K_user, EmailObject))
      [] c = "objDeep" ->
            Object(Schema1(K_user, Object(Schema1(K_profile, EmailObject))))
      [] c = "objFlat" ->
            Object(Schema2(K_name, String, K_age, Optional(Min(Number, 0))))
      [] c = "objUsers" -> Object(Schema1(K_users, Array(EmailObject)))
      [] c = "arrObj" -> Array(EmailObject)
      [] c = "arrNum" -> Array(Min(Number, 0))
      [] c = "arrOpt" -> Array(Optional(String))
      [] c = "arrTrim" -> Array(Trim(String))
      [] c = "arrLen" -> Max(Min(Array(Min(Number, 0)), 3), 3)
      [] c = "arrBounds" ->
            NonEmpty(Max(Min(Array(Min(Number, 0)), 2), 3))
      [] c = "arrCross" -> NonEmpty(Max(Min(Array(Number), 3), 1))
      [] c = "tuple" -> Tuple(<<String, Min(Number, 0)>>)
      [] c = "tupleRest" -> Rest(Tuple(<<String>>), Min(Number, 0))
      [] c = "tupleEmpty" -> Tuple(<<>>)
      [] c = "record" -> Record(String, Min(Number, 0))
      [] c = "recordKey" -> Record(Min(String, 2), EmailObject)
      [] c = "recordDate" -> Record(Date, Min(Number, 0))
      [] c = "recordTrim" -> Record(Trim(String), Min(Number, 0))
      [] c = "objCustom" ->
            Object(Schema2(K_name, String, K_x, Custom(<<>>)))
      [] c = "arrCustom" -> Array(Custom(<<>>))
      [] c = "tupleCustom" -> Tuple(<<String, Custom(<<>>)>>)
      [] c = "recordCustom" -> Record(String, Custom(<<>>))
      [] c = "intersectionCustom" ->
            Intersection(<<Trim(String), Custom(<<>>)>>)
      [] c = "objCoded" -> Object(Schema2(K_name, String, K_x, Coded))
      [] c = "intersectionCoded" -> Intersection(<<Trim(String), Coded>>)
      [] c = "tree" -> Lazy("tree")
      [] c = "chain" -> Lazy("chain")
      [] c = "bag" -> Lazy("bag")
      [] c = "lazyStr" -> Lazy("str")
      [] c = "lazyOpt" -> Lazy("opt")

Leaf(n) == VMap(Schema1(K_value, VInt(n)))
Node(n, kids) == VMap(Schema2(K_value, VInt(n), K_children, VArr(kids)))
Link(n, next) == VMap(Schema2(K_value, VInt(n), K_child, next))
Mail(cs) == VMap(Schema1(K_email, VStr(cs)))
Map1(k, x) == VMap(Schema1(k, x))
Map2(k1, x1, k2, x2) == VMap(Schema2(k1, x1, k2, x2))
Map3(k1, x1, k2, x2, k3, x3) ==
    VMap([k \in {k1, k2, k3} |->
            IF k = k1 THEN x1 ELSE IF k = k2 THEN x2 ELSE x3])
Map4(k1, x1, k2, x2, k3, x3, k4, x4) ==
    VMap([k \in {k1, k2, k3, k4} |->
            IF k = k1 THEN x1 ELSE IF k = k2 THEN x2
            ELSE IF k = k3 THEN x3 ELSE x4])

\* Inputs every case is given.
CommonInputs == {Nil, VStr(S_hi), VInt(5), VArr(<<>>), VMap(EmptyMap)}

Inputs(c) ==
    CommonInputs \cup
    CASE c \in {"string", "union", "intersection", "intersectionOpt",
                "intersectionCustom", "intersectionCoded",
                "unionUpper", "intersectionMin",
                "lazyStr", "lazyOpt", "any"} ->
            {VStr(S_sp_hi_sp), VStr(S_sp_hello_sp), VStr(S_hello)}
      [] c \in {"number", "intersectionNum", "unionNum"} ->
            {VFloat(-5), VInt(11), VBool(TRUE)}
      [] c \in {"unionEmpty", "intersectionEmpty"} -> {VBool(TRUE)}
      [] c = "boolean" -> {VBool(TRUE), VBool(FALSE)}
      [] c = "enum" -> {VStr(K_a), VFloat(1), VStr(K_b)}
      [] c = "date" -> {VTime(7), VTime(3), VStr(K_date), VStr(S_feb30)}
      [] c = "objUser" ->
            {Map1(K_user, Mail(S_bad)), Map1(K_user, Mail(S_mail)),
             Map1(K_user, VInt(5)),
             Map2(K_user, Mail(S_bad), K_x, VInt(1))}
      [] c = "objDeep" ->
            {Map1(K_user, Map1(K_profile, Mail(S_bad))),
             Map1(K_user, Map1(K_profile, Mail(S_mail))),
             Map1(K_user, Map1(K_profile, VMap(EmptyMap)))}
      [] c = "objFlat" ->
            {Map1(K_name, VStr(S_al)),
             Map2(K_name, VStr(S_al), K_age, VInt(3)),
             Map2(K_name, VStr(S_al), K_age, Nil),
             Map3(K_name, VStr(S_al), K_age, VInt(-1), K_x, VInt(1)),
             Map3(K_name, VInt(5), K_age, VInt(-1), K_x, VStr(S_hi)),
             Map3(K_name, VStr(S_al), K_x, Nil, K_d, VInt(2)),
             Map2(K_x, VInt(1), K_d, VInt(2))}
      [] c = "objUsers" ->
            {Map1(K_users, VArr(<<Mail(S_mail), Mail(S_bad)>>)),
             Map1(K_users, VArr(<<Mail(S_mail)>>)),
             Map1(K_users, VArr(<<Mail(S_bad), VInt(1), Mail(S_bad)>>))}
      [] c = "arrObj" ->
            {VArr(<<Mail(S_mail), Mail(S_bad)>>),
             VArr(<<Mail(S_bad), Mail(S_mail), VInt(1)>>),
             VArr(<<Mail(S_mail)>>)}
      [] c = "arrNum" ->
            {VArr(<<VInt(1), VInt(-1), VInt(-2)>>),
             VArr(<<VInt(1), VFloat(2)>>),
             VArr(<<VStr(S_hi), VInt(0), Nil>>)}
      [] c \in {"arrLen", "arrBounds", "arrCross"} ->
            {VArr(<<VInt(-1)>>),
             VArr(<<VInt(1), VInt(-2)>>),
             VArr(<<VInt(1), VInt(2), VInt(3)>>),
             VArr(<<VInt(1), VStr(S_hi), VInt(-3)>>),
             VArr(<<VInt(1), VInt(2), VInt(3), VInt(-4)>>)}
      [] c = "arrTrim" ->
            {VArr(<<VStr(S_sp_hi_sp), VStr(S_hello)>>),
             VArr(<<VStr(S_sp_hello_sp), VInt(1)>>)}
      [] c = "arrOpt" ->
            {VArr(<<Nil, VStr(S_hi)>>), VArr(<<VStr(S_al), Nil, VInt(1)>>)}
      [] c \in {"tuple", "tupleRest", "tupleEmpty", "tupleCustom"} ->
            {VArr(<<VStr(S_hi), VInt(1)>>),
             VArr(<<VStr(S_hi)>>),
             VArr(<<VInt(1), VInt(-1)>>),
             VArr(<<VStr(S_hi), VInt(-1), VInt(2), VInt(-3)>>),
             VArr(<<VInt(1), VInt(2), VStr(S_al), VInt(-3)>>)}
      [] c = "record" ->
            {Map4(K_a, VInt(10), K_b, VInt(-5), K_c, VStr(K_x),
                  K_d, VInt(-10)),
             Map2(K_a, VInt(10), K_b, VInt(2)),
             Map1(K_sp_a, VInt(-1))}
      [] c = "recordKey" ->
            {Map2(K_a, Mail(S_bad), K_age, Mail(S_bad)),
             Map2(K_user, Mail(S_mail), K_age, Mail(S_bad)),
             Map3(K_a, Mail(S_mail), K_b, VInt(1), K_user, VInt(2))}
      [] c = "recordDate" ->
            {Map1(K_date, VInt(1)),
             Map1(K_date, VInt(-1)),
             Map2(K_date, VInt(-1), K_a, VInt(1))}
      [] c = "recordTrim" ->
            {Map1(K_sp_a, VInt(-1)),
             Map1(K_sp_a, VInt(1)),
             Map2(K_sp_a, VInt(1), K_a, VInt(2)),
             Map2(K_sp_a, VInt(1), K_a, VInt(-2))}
      [] c = "objCoded" ->
            {Map2(K_name, VInt(1), K_x, VInt(1)), Map1(K_x, VInt(1))}
      [] c = "objCustom" ->
            {Map2(K_name, VStr(S_al), K_x, VInt(1)),
             Map2(K_name, VInt(1), K_x, VInt(1))}
      [] c = "arrCustom" -> {VArr(<<VInt(1), VInt(2)>>)}
      [] c = "recordCustom" ->
            {Map1(K_a, VInt(1)), Map2(K_a, VInt(1), K_b, VInt(2))}
      [] c = "tree" ->
            {Leaf(1),
             Node(1, <<>>),
             Node(1, <<Leaf(2), Leaf(3)>>),
             Node(1, <<Node(2, <<Leaf(5)>>)>>),
             Node(1, <<Node(2, <<Leaf(-5)>>)>>),
             Node(1, <<Leaf(-2), Node(2, <<Leaf(3), Leaf(-5)>>)>>)}
      [] c = "chain" ->
            {Leaf(1),
             Link(1, Leaf(2)),
             Link(1, Link(2, Leaf(3))),
             Link(1, Link(2, VStr(S_hi))),
             Link(1, Nil)}
      [] c = "bag" ->
            {Map1(K_a, VInt(5)),
             Map2(K_a, VInt(1), K_b, VArr(<<VInt(2)>>)),
             VArr(<<VInt(1), Map1(K_a, VInt(2))>>),
             Map1(K_a, VArr(<<VInt(1), VStr(S_hi)>>))}

\* The value Default() is called with in a case.
Defaults(c) ==
    CASE c = "string" -> {VStr(S_sp_x_sp)}
      [] c = "number" -> {VFloat(-1)}
      [] c = "boolean" -> {VBool(FALSE)}
      [] c = "enum" -> {VStr(K_x)}
      [] c = "date" -> {VTime(1)}
      [] OTHER -> {}

(***************************************************************************)
(* The program: a schema is constructed, builder methods are called on its *)
(* root, and then Parse is called on it.                                   *)
(***************************************************************************)
NoCall == [kind |-> "none"]

\* The modifier flags of the root (a Lazy root keeps them in the heap).
Flags(v, st) == IF v.kind = "lazy" THEN st[v.id] ELSE v

Init ==
    /\ case \in Cases
    /\ root = Construct(case)
    /\ store = [id \in LazyIds |-> NoFlags]
    /\ phase = "build"
    /\ last = NoCall
    /\ nparse = 0

\* The root after a builder method: a Lazy root is modified in the heap.
Build(node) ==
    /\ IF root.kind = "lazy"
       THEN /\ store' = [store EXCEPT ![root.id] = node]
            /\ UNCHANGED root
       ELSE /\ root' = node
            /\ UNCHANGED store
    /\ UNCHANGED <<case, phase, last, nparse>>

CallRequired ==
    /\ phase = "build"
    /\ Build(Required(Flags(root, store)))

CallOptional ==
    /\ phase = "build"
    /\ Build(Optional(Flags(root, store)))

CallNullable ==
    /\ phase = "build"
    /\ Build(Nullable(Flags(root, store)))

CallDefault ==
    /\ phase = "build"
    /\ root.kind \in {"string", "number", "boolean", "enum", "date"}
    /\ \E val \in Defaults(case) : Build(Default(root, val))

CallStrict ==
    /\ phase = "build"
    /\ root.kind = "object"
    /\ Build(Strict(root))

CallPassthrough ==
    /\ phase = "build"
    /\ root.kind = "object"
    /\ Build(Passthrough(root))

CallStrip ==
    /\ phase = "build"
    /\ root.kind = "object"
    /\ Build(Strip(root))

\* root.Parse(value)
CallParse ==
    /\ nparse < MaxParses
    /\ \E value \in Inputs(case), ord \in Orders :
          LET result == Parse(root, value, store,
                              [ord |-> ord, fuel |-> MaxStack])
          IN  /\ last' = [kind |-> "call", v |-> root, arg |-> value,
                          ord |-> ord, pre |-> store, result |-> result]
              /\ store' = result.store
    /\ phase' = "parse"
    /\ nparse' = nparse + 1
    /\ UNCHANGED <<case, root>>

ParseLeaf ==
    /\ root.kind \in {"string", "number", "boolean", "enum", "date", "any"}
    /\ CallParse

ParseObject ==
    /\ root.kind = "object"
    /\ CallParse

ParseArray ==
    /\ root.kind = "array"
    /\ CallParse

ParseTuple ==
    /\ root.kind = "tuple"
    /\ CallParse

ParseRecord ==
    /\ root.kind = "record"
    /\ CallParse

ParseUnion ==
    /\ root.kind = "union"
    /\ CallParse

ParseIntersection ==
    /\ root.kind = "intersection"
    /\ CallParse

ParseLazy ==
    /\ root.kind = "lazy"
    /\ CallParse

Next ==
    \/ CallRequired
    \/ CallOptional
    \/ CallNullable
    \/ CallDefault
    \/ CallStrict
    \/ CallPassthrough
    \/ CallStrip
    \/ ParseLeaf
    \/ ParseObject
    \/ ParseArray
    \/ ParseTuple
    \/ ParseRecord
    \/ ParseUnion
    \/ ParseIntersection
    \/ ParseLazy

Spec == Init /\ [][Next]_vars

(***************************************************************************)
(* Properties.  They are stated over the last Parse call on the root: its  *)
(* receiver last.v, argument last.arg, the heap last.pre it started from   *)
(* and its result.  What a child returns when called on its own is         *)
(* ChildResult.                                                            *)
(***************************************************************************)
Called(kind) == last.kind = "call" /\ last.v.kind = kind

ChildResult(validator, value) ==
    Parse(validator, value, last.pre,
          [ord |-> last.ord, fuel |-> MaxStack - 1])

SetMax(S) == IF S = {} THEN 0 ELSE CHOOSE n \in S : \A m \in S : m <= n

RECURSIVE ValueDepth(_)
\* Nesting depth of a value: 0 for nil and scalars.
ValueDepth(x) ==
    CASE x.t = "slice" ->
            1 + SetMax({ValueDepth(x.a[i]) : i \in DOMAIN x.a})
      [] x.t = "map" ->
            1 + SetMax({ValueDepth(x.m[k]) : k \in DOMAIN x.m})
      [] OTHER -> 0

\* Number of validator nodes of a Lazy schema: a recursive call is reached
\* after at most this many frames, one input level further down.
SchemaNodes(id) ==
    CASE id = "tree" -> 3 [] id = "chain" -> 2 [] id = "bag" -> 3
      [] OTHER -> 2

RECURSIVE ValidTree(_)
\* A tree all of whose nodes are valid for the tree schema.
ValidTree(x) ==
    /\ x.t = "map"
    /\ K_value \in DOMAIN x.m
    /\ x.m[K_value].t \in {"int", "float64"}
    /\ x.m[K_value].n >= 0
    /\ K_children \in DOMAIN x.m =>
          \/ x.m[K_children] = Nil
          \/ /\ x.m[K_children].t = "slice"
             /\ \A i \in DOMAIN x.m[K_children].a :
                   ValidTree(x.m[K_children].a[i])

\* C1: Parse on a Lazy schema whose recursive reference sits beneath an
\* Object field, an Array or Tuple element or a Record value returns without
\* exhausting the stack; the depth of the nested Parse calls is at most the
\* schema's node count for each level of the input's nesting; and a tree
\* whose nodes are all valid is accepted by the tree schema.
C1_LazyTerminates ==
    Called("lazy") =>
        /\ ~last.result.overflow
        /\ last.result.depth
              <= SchemaNodes(last.v.id) * (ValueDepth(last.arg) + 1)
        /\ (last.v.id = "tree" /\ ValidTree(last.arg)) => last.result.Ok

C1_Witness ==
    /\ Called("lazy")
    /\ last.v.id = "tree"
    /\ last.arg = Node(1, <<Node(2, <<Leaf(5)>>)>>)
    /\ last.result.Ok
    /\ last.result.depth = 9
    /\ last.result.factoryCalls = 3

\* Positions (from 1) of the Union members that accept the argument.
Accepting ==
    {i \in DOMAIN last.v.validators :
        ChildResult(last.v.validators[i], last.arg).Ok}

RECURSIVE Threaded(_)
\* The value after the first n members of the Intersection: the output of
\* the most recent accepting member, or the input.
Threaded(n) ==
    IF n = 0 THEN last.arg
    ELSE LET r == ChildResult(last.v.validators[n], Threaded(n - 1))
         IN  IF r.Ok THEN r.Value ELSE Threaded(n - 1)

\* C3: an Intersection given a non-nil input invokes every member, in
\* declaration order, member i on the output of the most recent accepting
\* earlier member (the input if there is none); it succeeds iff every member
\* accepted what it was given, and then returns the last member's output
\* (the input itself when it has no members).
C3_IntersectionThreads ==
    (Called("intersection") /\ last.arg # Nil) =>
        LET n == Len(last.v.validators)
            accepted(i) ==
                ChildResult(last.v.validators[i], Threaded(i - 1)).Ok
        IN  /\ last.result.calls
                  = [i \in 1..n |-> Call(ToString(i), Threaded(i - 1))]
            /\ last.result.Ok <=> \A i \in 1..n : accepted(i)
            /\ last.result.Ok => last.result.Value = Threaded(n)

C3_Witness ==
    /\ Called("intersection")
    /\ last.arg = VStr(S_sp_hi_sp)
    /\ ~last.result.Ok
    /\ Len(last.result.calls) = 3
    /\ last.result.calls[2].arg = VStr(S_hi)
    /\ last.result.calls[3].arg = VStr(S_hi)

(* Object, Array, Tuple and Record calls on an input of their own shape.   *)
OnMap(kind) == Called(kind) /\ last.arg.t = "map"

OnSlice(kind) == Called(kind) /\ last.arg.t = "slice"

RECURSIVE SumSeq(_)
SumSeq(q) == IF q = <<>> THEN 0 ELSE Head(q) + SumSeq(Tail(q))

RECURSIVE Flatten(_)
Flatten(qs) == IF qs = <<>> THEN <<>> ELSE Head(qs) \o Flatten(Tail(qs))

\* Path and message of each issue of a list.
Located(errors) ==
    [i \in DOMAIN errors |->
        [Path |-> errors[i].Path, Message |-> errors[i].Message]]

\* A child's issues under a segment: the segment alone when the child's
\* path is empty, the segment, a dot and the child's path otherwise.
Under(segment, errors) ==
    [i \in DOMAIN errors |->
        [Path |-> IF errors[i].Path = "" THEN segment
                  ELSE segment \o "." \o errors[i].Path,
         Message |-> errors[i].Message]]

\* The fields of the Object's schema in the order the call visited them,
\* what each field validator is given and what it returns.
Fields == KeysInOrder(DOMAIN last.v.schema, last.ord)

FieldValue(f) == IF f \in DOMAIN last.arg.m THEN last.arg.m[f] ELSE Nil

FieldResult(f) == ChildResult(last.v.schema[f], FieldValue(f))

FieldIssueCount ==
    SumSeq([i \in DOMAIN Fields |-> Len(FieldResult(Fields[i]).Errors)])

\* The input's keys that are not in the schema.
UnknownKeys == DOMAIN last.arg.m \ DOMAIN last.v.schema

\* C4: the mapping a successful Object.Parse returns has as keys the schema
\* fields whose validator returned a non-nil value, each with that value,
\* and in passthrough mode also every input key that is not in the schema,
\* with its raw value; in strict and strip mode it has no other key.
C4_ObjectKeySet ==
    (OnMap("object") /\ last.result.Ok) =>
        LET out == last.result.Value.m
            kept == {f \in DOMAIN last.v.schema : FieldResult(f).Value # Nil}
            copied == IF last.v.unknownFields = "passthrough"
                      THEN UnknownKeys ELSE {}
        IN  /\ DOMAIN out = kept \cup copied
            /\ \A f \in kept : out[f] = FieldResult(f).Value
            /\ \A k \in copied : out[k] = last.arg.m[k]

C4_Witness ==
    /\ OnMap("object")
    /\ last.v.unknownFields = "passthrough"
    /\ last.arg = Map3(K_name, VStr(S_al), K_x, Nil, K_d, VInt(2))
    /\ last.result.Ok
    /\ FieldResult(K_age).Ok
    /\ DOMAIN last.result.Value.m = {K_name, K_x, K_d}

\* C5: in strict mode Object.Parse fails when the input has a key that is
\* not in the schema, and returns for each such key exactly one issue with
\* the key as path, the message "Unknown field" and the key's raw value; in
\* passthrough and strip mode the issues are those of the fields alone.
C5_StrictUnknown ==
    OnMap("object") =>
        LET errors == last.result.Errors
            unknownIssues ==
                {i \in DOMAIN errors : errors[i].Message = "Unknown field"}
        IN  IF last.v.unknownFields = "strict"
            THEN /\ UnknownKeys # {} => ~last.result.Ok
                 /\ Cardinality(unknownIssues) = Cardinality(UnknownKeys)
                 /\ \A k \in UnknownKeys :
                       \E i \in unknownIssues :
                          /\ errors[i].Path = Str(k)
                          /\ errors[i].Value = last.arg.m[k]
            ELSE /\ unknownIssues = {}
                 /\ Len(errors) = FieldIssueCount

C5_Witness ==
    /\ OnMap("object")
    /\ last.v.unknownFields = "strict"
    /\ last.arg = Map3(K_name, VStr(S_al), K_x, Nil, K_d, VInt(2))
    /\ \A f \in DOMAIN last.v.schema : FieldResult(f).Ok
    /\ ~last.result.Ok
    /\ Len(last.result.Errors) = 2

C7_ArrayFieldPath ==
    /\ OnMap("object") =>
          \A f \in DOMAIN last.v.schema :
             last.v.schema[f].kind = "array" =>
                \A j \in DOMAIN FieldResult(f).Errors :
                   FieldResult(f).Errors[j].Path # "" =>
                      \E i \in DOMAIN last.result.Errors :
                         last.result.Errors[i].Path
                            = Str(f) \o FieldResult(f).Errors[j].Path
    /\ (/\ OnMap("object")
        /\ case = "objUsers"
        /\ last.arg = Map1(K_users, VArr(<<Mail(S_mail), Mail(S_bad)>>)))
          => /\ Len(last.result.Errors) = 1
             /\ last.result.Errors[1].Path = "users[1].email"
    /\ (/\ (Called("lazy") /\ last.arg.t = "map")
        /\ last.v.id = "tree"
        /\ last.arg = Node(1, <<Node(2, <<Leaf(-5)>>)>>))
          => /\ Len(last.result.Errors) = 1
             /\ last.result.Errors[1].Path = "children[0].children[0].value"

\* What Object.Parse returns where C7 expects users[1].email.
C7_DotBeforeBracket ==
    /\ OnMap("object")
    /\ case = "objUsers"
    /\ last.arg = Map1(K_users, VArr(<<Mail(S_mail), Mail(S_bad)>>))
    /\ Len(last.result.Errors) = 1
    /\ last.result.Errors[1].Path = "users.[1].email"

\* The validator Array and Tuple apply to the element at Go index i, and
\* what it returns.
ElementValidator(i) ==
    IF last.v.kind = "array" THEN last.v.elementValidator
    ELSE IF i < Len(last.v.validators) THEN last.v.validators[i + 1]
    ELSE last.v.rest[1]

ElementResult(i) == ChildResult(ElementValidator(i), last.arg.a[i + 1])

ElementIssueCount ==
    SumSeq([k \in DOMAIN last.arg.a |-> Len(ElementResult(k - 1).Errors)])

\* The whole-value checks of Array (non-empty, minimum, maximum length) and
\* of Tuple (the arity) on a sequence.
LengthAccepted ==
    IF last.v.kind = "array"
    THEN /\ last.v.isNonEmpty => Len(last.arg.a) > 0
         /\ last.v.minLen # NilPtr => Len(last.arg.a) >= last.v.minLen[1]
         /\ last.v.maxLen # NilPtr => Len(last.arg.a) <= last.v.maxLen[1]
    ELSE IF last.v.rest = NilPtr
    THEN Len(last.arg.a) = Len(last.v.validators)
    ELSE Len(last.arg.a) >= Len(last.v.validators)

\* C8: Array and Tuple return the issues of each failing element, the rest
\* elements of a Tuple included, under "[i]" with i the element's zero-based
\* index in the input sequence, followed by a dot and the element's path
\* when that path is not empty.
C8_ElementIndexPaths ==
    ((OnSlice("array") \/ OnSlice("tuple")) /\ LengthAccepted) =>
        Located(last.result.Errors)
           = Flatten([k \in DOMAIN last.arg.a |->
                 Under("[" \o ToString(k - 1) \o "]",
                       ElementResult(k - 1).Errors)])

C8_Witness ==
    /\ OnSlice("array")
    /\ last.arg = VArr(<<Mail(S_mail), Mail(S_bad)>>)
    /\ last.v.elementValidator = EmailObject
    /\ Len(last.result.Errors) = 1
    /\ last.result.Errors[1].Path = "[1].email"

\* The entries of the Record's input in the order the call visited them and
\* the number of issues an entry yields: those of the key validator when it
\* rejects the key, otherwise those of the value validator.
Entries == KeysInOrder(DOMAIN last.arg.m, last.ord)

EntryIssueCount(k) ==
    LET keyResult == ChildResult(last.v.keyValidator, VStr(k))
    IN  IF ~keyResult.Ok THEN Len(keyResult.Errors)
        ELSE Len(ChildResult(last.v.valueValidator, last.arg.m[k]).Errors)

\* The entries of the Record's input whose key and value are both accepted
\* but whose key comes back from the key validator as something other than
\* a string: each is refused with one issue that no child returned.
KeyTypeIssues ==
    Cardinality({k \in DOMAIN last.arg.m :
        /\ ChildResult(last.v.keyValidator, VStr(k)).Ok
        /\ ChildResult(last.v.keyValidator, VStr(k)).Value.t # "string"
        /\ ChildResult(last.v.valueValidator, last.arg.m[k]).Ok})

\* Collect-all, with the number of issues a Record returns beyond those of
\* its failing children.
CollectAll(recordExtra) ==
    /\ OnMap("object") =>
          /\ Len(last.result.calls) = Len(Fields)
          /\ Len(last.result.Errors)
                = FieldIssueCount
                  + IF last.v.unknownFields = "strict"
                    THEN Cardinality(UnknownKeys) ELSE 0
    /\ ((OnSlice("array") \/ OnSlice("tuple")) /\ LengthAccepted) =>
          /\ Len(last.result.calls) = Len(last.arg.a)
          /\ Len(last.result.Errors) = ElementIssueCount
    /\ OnMap("record") =>
          /\ \A k \in DOMAIN last.arg.m :
                \E i \in DOMAIN last.result.calls :
                   last.result.calls[i].arg = VStr(k)
          /\ Len(last.result.Errors)
                = SumSeq([i \in DOMAIN Entries |->
                             EntryIssueCount(Entries[i])])
                  + recordExtra
    /\ (/\ OnMap("record")
        /\ case = "record"
        /\ last.arg = Map4(K_a, VInt(10), K_b, VInt(-5), K_c, VStr(K_x),
                           K_d, VInt(-10)))
          => /\ Len(last.result.Errors) = 3
             /\ {last.result.Errors[i].Path : i \in 1..3} = {"b", "c", "d"}

\* C9: Object, Array, Tuple and Record, once the input passed the checks on
\* the whole value, call the validator of every field, element and entry
\* whatever the earlier ones returned, and return as many issues as the
\* failing children returned in total, plus one for each unknown key of a
\* strict Object and one for each Record entry whose key and value are
\* accepted but whose validated key is not a string;
\* Record(String, Number.Min(0)) on {a:10, b:-5, c:"x", d:-10} returns three
\* issues, at b, c and d.
C9_CollectAll == CollectAll(KeyTypeIssues)

\* C9 as the specification states it: the issues returned are those of the
\* failing children, plus one for each unknown key of a strict Object, and
\* no others.
C9_ChildIssuesOnly == CollectAll(0)

C9_Witness ==
    /\ OnMap("record")
    /\ last.arg = Map4(K_a, VInt(10), K_b, VInt(-5), K_c, VStr(K_x),
                       K_d, VInt(-10))
    /\ last.v.valueValidator = Min(Number, 0)
    /\ Len(last.result.calls) = 8
    /\ Len(last.result.Errors) = 3

ExpectedKind(kind) ==
    CASE kind = "object" -> "object"
      [] kind = "array" -> "array"
      [] kind = "tuple" -> "tuple"
      [] kind = "record" -> "record (object)"

C12_NilPolicyEverywhere ==
    (/\ last.kind = "call"
     /\ last.v.kind \in {"intersection", "lazy"}
     /\ last.arg = Nil
     /\ ~Flags(last.v, last.pre).isOptional
     /\ ~Flags(last.v, last.pre).isNullable) =>
        /\ ~last.result.Ok
        /\ Len(last.result.Errors) = 1
        /\ last.result.Errors[1].Path = ""
        /\ last.result.calls = <<>>
        /\ last.result.factoryCalls = 0

\* What Lazy.Parse does on nil when no modifier was called on the node: the
\* factory is invoked and its validator, here String().Optional(), decides.
C12_NilHandedOn ==
    /\ Called("lazy")
    /\ last.v.id = "opt"
    /\ last.arg = Nil
    /\ Flags(last.v, last.pre) = NoFlags
    /\ last.result.factoryCalls = 1
    /\ last.result.Ok

\* The outcome of a Union's member search on the argument: the members up
\* to the first accepting one are called in declaration order and its value
\* is returned, or all are called and the Union fails.
MemberSearch ==
    IF Accepting # {}
    THEN LET first == CHOOSE i \in Accepting : \A j \in Accepting : i <= j
         IN  /\ last.result.Ok
             /\ last.result.Value
                   = ChildResult(last.v.validators[first], last.arg).Value
             /\ last.result.calls
                   = [i \in 1..first |-> Call(ToString(i), last.arg)]
    ELSE /\ ~last.result.Ok
         /\ last.result.calls
               = [i \in DOMAIN last.v.validators |->
                     Call(ToString(i), last.arg)]

C14_RequiredRejectsNil ==
    (/\ last.kind = "call"
     /\ last.arg = Nil
     /\ Flags(last.v, last.pre).isRequired) => ~last.result.Ok

\* A required and nullable String accepts nil.
C14_RequiredNullableAccepts ==
    /\ Called("string")
    /\ last.arg = Nil
    /\ last.v.isRequired
    /\ last.v.isNullable
    /\ last.v.defaultVal = NilPtr
    /\ last.result.Ok
    /\ last.result.Value = Nil

\* The presence flags of the root node.
RootFlags == Flags(root, store)

\* What one step does to the presence flags of the root node.
FlagStep ==
    /\ CallRequired =>
          /\ RootFlags'.isRequired
          /\ ~RootFlags'.isOptional
          /\ RootFlags'.isNullable = RootFlags.isNullable
    /\ CallOptional =>
          /\ RootFlags'.isOptional
          /\ ~RootFlags'.isRequired
          /\ RootFlags'.isNullable = RootFlags.isNullable
    /\ CallNullable =>
          /\ RootFlags'.isNullable
          /\ RootFlags'.isRequired = RootFlags.isRequired
          /\ RootFlags'.isOptional = RootFlags.isOptional
    /\ RootFlags.isNullable => RootFlags'.isNullable

\* C15: the required and optional flags of a node are never both set;
\* Required() sets required and clears optional, Optional() sets optional
\* and clears required, so the most recent of the two decides; Nullable()
\* sets nullable and changes neither of the other two; and no step (builder
\* call or Parse) clears a nullable flag that is set.
C15_FlagDiscipline ==
    /\ [](~(RootFlags.isRequired /\ RootFlags.isOptional))
    /\ [][FlagStep]_vars

\* Optional(), Nullable() and then Required() were called on a Lazy node:
\* required and nullable are set, optional is cleared again.
C15_Witness ==
    /\ case = "lazyOpt"
    /\ phase = "build"
    /\ RootFlags.isRequired
    /\ RootFlags.isNullable
    /\ ~RootFlags.isOptional

\* The Union reaches its member search: the argument is not nil, or none
\* of the Union's own presence flags is set.
SearchReached ==
    \/ last.arg # Nil
    \/ ~(last.v.isOptional \/ last.v.isNullable \/ last.v.isRequired)

\* The entry of member k (from 1) in the message of an exhausted Union.
OptionEntry(k) ==
    LET errors == ChildResult(last.v.validators[k], last.arg).Errors
    IN  "Option " \o ToString(k) \o ": "
        \o (IF errors = <<>> THEN "validation failed"
            ELSE Join([j \in DOMAIN errors |-> errors[j].Message], ", "))

\* The one issue of an exhausted Union: empty path, one entry per member in
\* declaration order.
Exhausted ==
    /\ ~last.result.Ok
    /\ Len(last.result.Errors) = 1
    /\ last.result.Errors[1].Path = ""
    /\ last.result.Errors[1].Message
          = "Value did not match any union type. Errors: "
            \o Join([k \in DOMAIN last.v.validators |-> OptionEntry(k)], "; ")

C16_EmptyUnionAccepts ==
    /\ Called("union")
    /\ last.v.validators = <<>>
    /\ last.arg = Nil
    /\ last.result.Ok

\* C17: an Intersection with no members succeeds with the input unchanged,
\* calling nothing, for every input that is not nil and for nil unless
\* required is set without optional or nullable; in that one configuration
\* nil fails with the one issue "Expected value, received null".
C17_EmptyIntersection ==
    (Called("intersection") /\ last.v.validators = <<>>) =>
        /\ last.result.calls = <<>>
        /\ IF /\ last.arg = Nil
              /\ last.v.isRequired
              /\ ~(last.v.isOptional \/ last.v.isNullable)
           THEN /\ ~last.result.Ok
                /\ Len(last.result.Errors) = 1
                /\ last.result.Errors[1].Path = ""
                /\ last.result.Errors[1].Message
                      = "Expected value, received null"
           ELSE /\ last.result.Ok
                /\ last.result.Value = last.arg

C17_Witness ==
    /\ Called("intersection")
    /\ last.v.validators = <<>>
    /\ last.v.isRequired
    /\ last.arg = VArr(<<>>)
    /\ last.result.Ok
    /\ last.result.Value = VArr(<<>>)

\* C17 as the specification states it: an Intersection with no members
\* succeeds with the input unchanged for every input and every
\* configuration of its presence flags.
C17_AlwaysSucceeds ==
    (Called("intersection") /\ last.v.validators = <<>>) =>
        last.result.Ok /\ last.result.Value = last.arg

\* What the factory of the called Lazy node returns, and what the
\* validator it returns gives on the argument.
Made == factory(last.v.id, last.pre)
Inner ==
    Parse(Made.validator, last.arg, Made.store,
          [ord |-> last.ord, fuel |-> MaxStack - 1])

\* The Lazy node's own flags decide a nil argument.
LazyDecides ==
    /\ last.arg = Nil
    /\ \/ last.pre[last.v.id].isOptional
       \/ last.pre[last.v.id].isNullable
       \/ last.pre[last.v.id].isRequired

\* C18: a Parse call on a Lazy node invokes the node's factory zero times
\* when the input is nil and the node's own flags (optional, nullable or
\* required) decide the outcome, and exactly once otherwise, and then the
\* result is that of factory().Parse(value): same outcome, value and
\* issues, with no path prefix.  This holds for every call, so n calls that
\* are not decided by the flags invoke the factory n times.
C18_LazyDelegates ==
    Called("lazy") =>
        IF LazyDecides
        THEN /\ last.result.factoryCalls = 0
             /\ last.result.calls = <<>>
             /\ last.result.store = last.pre
        ELSE /\ last.result.factoryCalls = 1 + Inner.factoryCalls
             /\ last.result.calls = <<Call("actualValidator", last.arg)>>
             /\ last.result.Ok = Inner.Ok
             /\ last.result.Value = Inner.Value
             /\ last.result.Errors = Inner.Errors
             /\ last.result.store = Inner.store

\* The second Parse call on a Lazy(String) invokes the factory again and
\* returns the String validator's issue as it is.
C18_Witness ==
    /\ Called("lazy")
    /\ nparse = 2
    /\ last.v.id = "str"
    /\ last.arg = VInt(5)
    /\ last.result.factoryCalls = 1
    /\ ~last.result.Ok
    /\ Len(last.result.Errors) = 1
    /\ last.result.Errors[1].Path = ""

\* What the key validator of the called Record returns on a key, and the
\* keys of the input it rejects.
KeyResult(k) == ChildResult(last.v.keyValidator, VStr(k))

RejectedKeys == {k \in DOMAIN last.arg.m : ~KeyResult(k).Ok}

\* The issues of the result that are among the given ones, in result order.
IssuesAmong(issues) ==
    SelectSeq(Located(last.result.Errors),
              LAMBDA e : e \in {issues[i] : i \in DOMAIN issues})

\* C19: a Record calls the key validator on the key of every entry of its
\* input, before the entry's value validator; for an entry whose key is
\* rejected, the key validator's issues are returned at key(<key>), followed
\* by a dot and the issue's own path when that is not empty, the value
\* validator is not called for that entry, the Record fails (nothing is
\* inserted), and the other entries are still processed: the value
\* validator is called once for every entry whose key is accepted.
C19_RejectedKey ==
    OnMap("record") =>
        LET calls == last.result.calls
            callSet == {calls[i] : i \in DOMAIN calls}
        IN  /\ \A k \in DOMAIN last.arg.m :
                  /\ Call(KeyPath(k), VStr(k)) \in callSet
                  /\ (k \notin RejectedKeys) <=>
                        (Call(Str(k), last.arg.m[k]) \in callSet)
                  /\ \A i, j \in DOMAIN calls :
                        (/\ calls[i] = Call(KeyPath(k), VStr(k))
                         /\ calls[j] = Call(Str(k), last.arg.m[k])) => i < j
            /\ Len(calls)
                  = 2 * Cardinality(DOMAIN last.arg.m)
                    - Cardinality(RejectedKeys)
            /\ \A k \in RejectedKeys :
                  /\ ~last.result.Ok
                  /\ last.result.Value = Nil
                  /\ IssuesAmong(Under(KeyPath(k), KeyResult(k).Errors))
                        = Under(KeyPath(k), KeyResult(k).Errors)

\* Record(String.Min(2), Object{email}) on {a: {email: bad}, age: {email:
\* bad}}: key a is rejected and its value is not validated, entry age is
\* still validated.
C19_Witness ==
    /\ OnMap("record")
    /\ last.arg = Map2(K_a, Mail(S_bad), K_age, Mail(S_bad))
    /\ RejectedKeys = {K_a}
    /\ Len(last.result.calls) = 3
    /\ {last.result.Errors[i].Path : i \in DOMAIN last.result.Errors}
          = {"key(a)", "age.email"}

\* The keys of the Record's input that the key validator accepts with a
\* value that is not a string.
NonStringKeys ==
    {k \in DOMAIN last.arg.m :
        KeyResult(k).Ok /\ KeyResult(k).Value.t # "string"}

\* C20: when the key validator of a Record accepts the key of an entry with
\* a value that is not a string, the Record fails and returns the issue
\* "Record key must be a string" at key(<key>) for that entry, whether the
\* entry's value is valid or not.
C20_NonStringKey ==
    OnMap("record") =>
        \A k \in NonStringKeys :
            /\ ~last.result.Ok
            /\ \E i \in DOMAIN last.result.Errors :
                  /\ last.result.Errors[i].Path = KeyPath(k)
                  /\ last.result.Errors[i].Message
                        = "Record key must be a string"

\* Record(Date, Number.Min(0)) on {"2024-01-15": -1}: the key parses to a
\* time, the value is rejected, and the value's issue is the only one.
C20_ValueIssueOnly ==
    /\ OnMap("record")
    /\ last.v.keyValidator = Date
    /\ last.arg = Map1(K_date, VInt(-1))
    /\ NonStringKeys = {K_date}
    /\ ~last.result.Ok
    /\ Len(last.result.Errors) = 1
    /\ last.result.Errors[1].Path = "2024-01-15"
    /\ last.result.Errors[1].Message # "Record key must be a string"

\* Record(Date, Number.Min(0)) on {"2024-01-15": 1}: the value is valid and
\* the entry is refused for its key.
C20_KeyIssue ==
    /\ OnMap("record")
    /\ last.arg = Map1(K_date, VInt(1))
    /\ ~last.result.Ok
    /\ Len(last.result.Errors) = 1
    /\ last.result.Errors[1].Path = "key(2024-01-15)"
    /\ last.result.Errors[1].Message = "Record key must be a string"
    /\ last.result.Errors[1].Value.t = "time"

\* The entries of the Record's input whose key is accepted, with a string,
\* and whose value is rejected.
BadValueKeys ==
    {k \in DOMAIN last.arg.m :
        /\ KeyResult(k).Ok
        /\ KeyResult(k).Value.t = "string"
        /\ ~ChildResult(last.v.valueValidator, last.arg.m[k]).Ok}

\* C21: for a Record entry whose key is accepted and whose value is
\* rejected, the value validator's issues are returned under the validated
\* key, the string the key validator returned, and not under the key as it
\* is in the input.
C21_ValidatedKeyPath ==
    OnMap("record") =>
        \A k \in BadValueKeys :
            LET issues ==
                    Under(Str(KeyResult(k).Value.s),
                          ChildResult(last.v.valueValidator,
                                      last.arg.m[k]).Errors)
            IN  IssuesAmong(issues) = issues

\* Record(String.Trim, Number.Min(0)) on {" a": -1}: the key validates to
\* "a" and the value's issue is returned at " a".
C21_OriginalKeyPath ==
    /\ OnMap("record")
    /\ last.v.keyValidator = Trim(String)
    /\ last.arg = Map1(K_sp_a, VInt(-1))
    /\ KeyResult(K_sp_a).Value = VStr(K_a)
    /\ Len(last.result.Errors) = 1
    /\ last.result.Errors[1].Path = " a"

\* The arity a Tuple asks of a sequence: its number of positional
\* validators exactly, or at least that number when it has a rest validator.
ArityMet ==
    IF last.v.rest = NilPtr
    THEN Len(last.arg.a) = Len(last.v.validators)
    ELSE Len(last.arg.a) >= Len(last.v.validators)

\* C22: a Tuple given a sequence checks the arity before any element: when
\* it is not met the Tuple fails with exactly one issue, with empty path,
\* and calls no positional or rest validator; when it is met every element
\* is handed to a validator; a Tuple with no validators and no rest
\* accepts the empty sequence and no other.
C22_TupleArity ==
    OnSlice("tuple") =>
        /\ ~ArityMet =>
              /\ ~last.result.Ok
              /\ Len(last.result.Errors) = 1
              /\ last.result.Errors[1].Path = ""
              /\ last.result.calls = <<>>
        /\ ArityMet => Len(last.result.calls) = Len(last.arg.a)
        /\ (last.v.validators = <<>> /\ last.v.rest = NilPtr) =>
              (last.result.Ok <=> last.arg.a = <<>>)

\* Tuple(String, Number.Min(0)) on a sequence of four elements.
C22_Witness ==
    /\ OnSlice("tuple")
    /\ Len(last.v.validators) = 2
    /\ last.v.rest = NilPtr
    /\ Len(last.arg.a) = 4
    /\ ~last.result.Ok
    /\ last.result.calls = <<>>
    /\ last.result.Errors[1].Message
          = "Expected tuple of length 2, received length 4"

\* The same Parse call made once more, on the heap the call left.
Again ==
    Parse(last.v, last.arg, last.result.store,
          [ord |-> last.ord, fuel |-> MaxStack])

\* C23: a Parse call leaves the schema graph as it found it, and the same
\* call made again returns the same outcome, value and issues.
C23_ParsePure ==
    last.kind = "call" =>
        /\ last.result.store = last.pre
        /\ Again.Ok = last.result.Ok
        /\ Again.Value = last.result.Value
        /\ Again.Errors = last.result.Errors

\* The Lazy schema whose factory calls Optional() on the Lazy node: the
\* first Parse(nil) runs the factory and fails, and leaves the node
\* optional, so that the next Parse(nil) succeeds.
C23_FactoryMarksNode ==
    /\ Called("lazy")
    /\ last.v.id = "chain"
    /\ last.arg = Nil
    /\ last.pre["chain"] = NoFlags
    /\ ~last.result.Ok
    /\ last.result.store["chain"].isOptional
    /\ Again.Ok

\* C24: every result Parse returns is a success, Ok with no issues, or a
\* failure, not Ok with a nil value and at least one issue.
C24_SuccessOrFailure ==
    last.kind = "call" =>
        \/ /\ last.result.Ok
           /\ last.result.Errors = <<>>
        \/ /\ ~last.result.Ok
           /\ last.result.Value = Nil
           /\ Len(last.result.Errors) >= 1

\* A Record that validated some entries and rejected others returns the
\* issues and no value.
C24_Witness ==
    /\ OnMap("record")
    /\ last.arg = Map4(K_a, VInt(10), K_b, VInt(-5), K_c, VStr(K_x),
                       K_d, VInt(-10))
    /\ ~last.result.Ok
    /\ last.result.Value = Nil
    /\ Len(last.result.Errors) = 3

\* The messages of the length constraints of the Array that the argument
\* violates, in the order non-empty, minimum, maximum.
Violated ==
    LET n == Len(last.arg.a)
        nonEmpty == IF last.v.isNonEmpty /\ n = 0
                    THEN <<"Array must not be empty">> ELSE <<>>
        min == IF last.v.minLen # NilPtr /\ n < last.v.minLen[1]
               THEN <<"Array must contain at least "
                      \o ToString(last.v.minLen[1]) \o " element(s)">>
               ELSE <<>>
        max == IF last.v.maxLen # NilPtr /\ n > last.v.maxLen[1]
               THEN <<"Array must contain at most "
                      \o ToString(last.v.maxLen[1]) \o " element(s)">>
               ELSE <<>>
    IN  nonEmpty \o min \o max

\* C25: an Array given a sequence checks its length constraints before any
\* element: when some are violated it fails with exactly one issue, with
\* empty path, that of the first violated one in the order non-empty,
\* minimum, maximum, and the element validator is not called; otherwise
\* the element validator is called on every element.  Length(n), which
\* sets minimum and maximum to n, passes this check exactly for the
\* sequences of length n.
C25_ArrayLengthFirst ==
    OnSlice("array") =>
        /\ Violated # <<>> =>
              /\ ~last.result.Ok
              /\ Len(last.result.Errors) = 1
              /\ last.result.Errors[1].Path = ""
              /\ last.result.Errors[1].Message = Violated[1]
              /\ last.result.calls = <<>>
        /\ Violated = <<>> => Len(last.result.calls) = Len(last.arg.a)
        /\ (last.v.minLen = Ptr(3) /\ last.v.maxLen = Ptr(3)) =>
              (Len(last.arg.a) = 3 <=> Len(last.result.calls) = 3)
        /\ (last.v.minLen = Ptr(3) /\ last.v.maxLen = Ptr(3)
            /\ Len(last.arg.a) # 3) => ~last.result.Ok

\* A non-empty Array of at least two elements given the empty sequence:
\* two constraints are violated and the issue is that of the first.
C25_Witness ==
    /\ OnSlice("array")
    /\ last.v.isNonEmpty
    /\ last.v.minLen = Ptr(2)
    /\ last.arg = VArr(<<>>)
    /\ Len(Violated) = 2
    /\ ~last.result.Ok
    /\ last.result.Errors[1].Message = "Array must not be empty"
    /\ last.result.calls = <<>>

\* C26: when an Array or a Tuple accepts a sequence, the value it returns
\* is a sequence of the same length whose i-th element is the value the
\* validator of position i (the element validator, the positional
\* validator, or the rest validator) returned for the i-th input element,
\* a nil returned by an optional validator included.
C26_ElementwiseOutput ==
    ((OnSlice("array") \/ OnSlice("tuple")) /\ last.result.Ok) =>
        /\ last.result.Value.t = "slice"
        /\ last.result.Value.a
              = [k \in DOMAIN last.arg.a |-> ElementResult(k - 1).Value]

\* Array(String.Trim) on [" hi ", "hello"] returns ["hi", "hello"].
C26_Witness ==
    /\ OnSlice("array")
    /\ last.v.elementValidator = Trim(String)
    /\ last.arg = VArr(<<VStr(S_sp_hi_sp), VStr(S_hello)>>)
    /\ last.result.Ok
    /\ last.result.Value = VArr(<<VStr(S_hi), VStr(S_hello)>>)

\* Array(String.Optional) on [nil, "hi"] returns [nil, "hi"].
C26_NilKept ==
    /\ OnSlice("array")
    /\ last.arg = VArr(<<Nil, VStr(S_hi)>>)
    /\ last.result.Ok
    /\ last.result.Value = VArr(<<Nil, VStr(S_hi)>>)

\* Some validator the combinator called on the argument's parts returned a
\* failure.
ChildFailed ==
    \/ /\ OnMap("object")
       /\ \E f \in DOMAIN last.v.schema : ~FieldResult(f).Ok
    \/ /\ OnSlice("array") \/ OnSlice("tuple")
       /\ LengthAccepted
       /\ \E k \in DOMAIN last.arg.a : ~ElementResult(k - 1).Ok
    \/ /\ OnMap("record")
       /\ \E k \in DOMAIN last.arg.m :
             \/ ~KeyResult(k).Ok
             \/ ~ChildResult(last.v.valueValidator, last.arg.m[k]).Ok
    \/ /\ Called("intersection")
       /\ last.arg # Nil
       /\ \E i \in DOMAIN last.v.validators :
             ~ChildResult(last.v.validators[i], Threaded(i - 1)).Ok

\* C27: when a field, element, entry or member validator that an Object,
\* Array, Tuple, Record or Intersection called returned a failure, the
\* combinator returns a failure, also when that validator returned no
\* issues with it.
C27_FailurePropagates ==
    ChildFailed => ~last.result.Ok

\* Object{name: String, x: V}, where V.Parse returns Failure() with no
\* issues, accepts {name: "al", x: 1} and returns {name: "al"}.
C27_SilentFailureAccepted ==
    /\ OnMap("object")
    /\ last.v.schema = Schema2(K_name, String, K_x, Custom(<<>>))
    /\ last.arg = Map2(K_name, VStr(S_al), K_x, VInt(1))
    /\ ~FieldResult(K_x).Ok
    /\ last.result.Ok
    /\ last.result.Value = Map1(K_name, VStr(S_al))

\* Intersection(String.Trim, V), where V.Parse returns Failure() with no
\* issues, accepts " hi " and returns "hi" although its second member
\* rejected it.
C3_SilentMemberAccepted ==
    /\ Called("intersection")
    /\ last.v.validators = <<Trim(String), Custom(<<>>)>>
    /\ last.arg = VStr(S_sp_hi_sp)
    /\ ~ChildResult(last.v.validators[2], Threaded(1)).Ok
    /\ last.result.Ok
    /\ last.result.Value = VStr(S_hi)

\* Array(V), where V.Parse returns Failure() with no issues, accepts
\* [1, 2] and returns the empty sequence.
C26_ShorterOutput ==
    /\ OnSlice("array")
    /\ last.v.elementValidator = Custom(<<>>)
    /\ last.arg = VArr(<<VInt(1), VInt(2)>>)
    /\ last.result.Ok
    /\ last.result.Value = VArr(<<>>)

\* What a combinator is to carry over from each issue of a child: the
\* code and the value, and the message where the combinator keeps it.
Carried(errors, withMessage) ==
    [i \in DOMAIN errors |->
        [Code |-> errors[i].Code, Value |-> errors[i].Value,
         Message |-> IF withMessage THEN errors[i].Message ELSE ""]]

\* The issues of the entry of key k of the Record's input: the key
\* validator's when it rejects the key, otherwise the value validator's.
EntryErrors(k) ==
    IF ~KeyResult(k).Ok THEN KeyResult(k).Errors
    ELSE ChildResult(last.v.valueValidator, last.arg.m[k]).Errors

\* C28: the issues an Object, Array, Tuple, Record or Intersection returns
\* for its children are the children's issues, each once and in the order
\* the children were visited, with the code and the value they had, and
\* for Object, Array, Tuple and Record with the message they had.
C28_IssueCarriedOver ==
    /\ OnMap("object") =>
          SubSeq(Carried(last.result.Errors, TRUE), 1, FieldIssueCount)
             = Flatten([i \in DOMAIN Fields |->
                   Carried(FieldResult(Fields[i]).Errors, TRUE)])
    /\ ((OnSlice("array") \/ OnSlice("tuple")) /\ LengthAccepted) =>
          Carried(last.result.Errors, TRUE)
             = Flatten([k \in DOMAIN last.arg.a |->
                   Carried(ElementResult(k - 1).Errors, TRUE)])
    /\ (OnMap("record") /\ KeyTypeIssues = 0) =>
          Carried(last.result.Errors, TRUE)
             = Flatten([i \in DOMAIN Entries |->
                   Carried(EntryErrors(Entries[i]), TRUE)])
    /\ (Called("intersection") /\ last.arg # Nil) =>
          Carried(last.result.Errors, FALSE)
             = Flatten([i \in DOMAIN last.v.validators |->
                   Carried(ChildResult(last.v.validators[i],
                                       Threaded(i - 1)).Errors, FALSE)])

\* Object{name: String, x: V}, where V returns an issue with the code
\* "too_small": the Object returns the issue at x without the code.
C28_CodeDropped ==
    /\ OnMap("object")
    /\ last.v.schema = Schema2(K_name, String, K_x, Coded)
    /\ last.arg = Map1(K_x, VInt(1))
    /\ FieldResult(K_x).Errors[1].Code = "too_small"
    /\ \E i \in DOMAIN last.result.Errors :
          /\ last.result.Errors[i].Path = "x"
          /\ last.result.Errors[i].Message = "Too small"
          /\ last.result.Errors[i].Value = VInt(1)
          /\ last.result.Errors[i].Code = ""

\* The cases whose schema is built from String, Number, Boolean, Enum,
\* Object, Array, Tuple, Record, Union and Intersection alone.
ListedCases ==
    {"string", "number", "boolean", "enum",
     "union", "unionNum", "unionEmpty", "unionUpper",
     "intersection", "intersectionNum", "intersectionOpt",
     "intersectionEmpty", "intersectionMin",
     "objUser", "objDeep", "objFlat", "objUsers",
     "arrObj", "arrNum", "arrOpt", "arrTrim", "arrLen", "arrBounds",
     "arrCross", "tuple", "tupleRest", "tupleEmpty",
     "record", "recordKey", "recordTrim"}

\* Parse called on the value the last call returned.
Reparse ==
    Parse(last.v, last.result.Value, last.result.store,
          [ord |-> last.ord, fuel |-> MaxStack])

NoDefault == "defaultVal" \in DOMAIN last.v => last.v.defaultVal = NilPtr

\* C29: for a schema of these validators with no default, when Parse
\* accepts an input and returns y, Parse accepts y and returns y.
C29_Idempotent ==
    (/\ last.kind = "call"
     /\ case \in ListedCases
     /\ NoDefault
     /\ last.result.Ok) =>
        /\ Reparse.Ok
        /\ Reparse.Value = last.result.Value

\* Intersection(String.Min(4), String.Trim) accepts " hi " and returns
\* "hi", which it rejects.
C29_OutputRejected ==
    /\ Called("intersection")
    /\ last.v.validators = <<Min(String, 4), Trim(String)>>
    /\ last.arg = VStr(S_sp_hi_sp)
    /\ last.result.Ok
    /\ last.result.Value = VStr(S_hi)
    /\ ~Reparse.Ok

\* Union(String.Max(2).ToUpperCase, String.Trim) accepts " hi " and returns
\* "hi", for which it returns "HI".
C29_OutputChanged ==
    /\ Called("union")
    /\ last.v.validators = <<ToUpperCase(Max(String, 2)), Trim(String)>>
    /\ last.arg = VStr(S_sp_hi_sp)
    /\ last.result.Ok
    /\ last.result.Value = VStr(S_hi)
    /\ Reparse.Ok
    /\ Reparse.Value = VStr(<<"H", "I">>)

\* The last call made with its map iterations in the order ord.
InOrder(ord) ==
    Parse(last.v, last.arg, last.pre, [ord |-> ord, fuel |-> MaxStack])

IssueSet(errors) == {errors[i] : i \in DOMAIN errors}

\* C30: what a Record returns for a mapping, the outcome, the mapping
\* returned and the set of issues, is the same in whatever order its
\* entries are iterated.
C30_RecordOrderFree ==
    OnMap("record") =>
        \A ord \in Orders :
            /\ InOrder(ord).Ok = last.result.Ok
            /\ InOrder(ord).Value = last.result.Value
            /\ IssueSet(InOrder(ord).Errors) = IssueSet(last.result.Errors)

\* Record(String.Trim, Number.Min(0)) on {" a": 1, "a": 2}: both keys
\* validate to "a"; iterating " a" first returns {"a": 2}, iterating "a"
\* first returns {"a": 1}.
C30_LastWriteWins ==
    /\ OnMap("record")
    /\ last.v.keyValidator = Trim(String)
    /\ last.arg = Map2(K_sp_a, VInt(1), K_a, VInt(2))
    /\ last.ord = AllKeys
    /\ last.result.Ok
    /\ last.result.Value = Map1(K_a, VFloat(2))
    /\ InOrder(Reverse(AllKeys)).Value = Map1(K_a, VFloat(1))

====
